---------------------------- MODULE Spec2Model ----------------------------
(***************************************************************************)
(* BellTimer (src/main.py): the bell controller's global state, its        *)
(* handlers and its main loop as a state machine.                          *)
(*                                                                         *)
(* Python values are modelled as follows.  A dict is a function whose      *)
(* DOMAIN is the set of keys present ({} is <<>>); a list is a sequence;   *)
(* a str that the code only compares or prints is a TLA+ string; a str     *)
(* that the code formats, splits, parses or orders is a sequence of        *)
(* one-character strings; None is the reserved value None.  A handler is   *)
(* an operator from the record g of all globals to the record after the    *)
(* handler returned, so that the calls a handler makes compose in the      *)
(* order of the code.  Code runs in zero time; time passes only in         *)
(* utime.sleep and in the waits of the network calls.                      *)
(***************************************************************************)
EXTENDS Integers, Sequences, FiniteSets, TLC

VARIABLES
    schedule,               \* main.py:24   dict weekday key -> list of events
    next_bell_event,        \* main.py:24
    schedule_manifest,      \* main.py:24
    display_on,             \* main.py:26
    last_activity_time,     \* main.py:26
    holiday_mode,           \* main.py:27
    last_status_line,       \* main.py:28
    wifi_connection_failed, \* main.py:29
    active_schedule_name,   \* main.py:31
    current_session_id,     \* main.py:33
    relay_status,           \* main.py:42
    touch_lock,             \* main.py:44
    long_press_triggered,   \* main.py:44
    touch_start_time,       \* main.py:44
    held_button,            \* main.py:44
    last_check_minute,      \* main.py:783
    last_wifi_check,        \* main.py:783
    sock,                   \* main.py:772-781  the web server socket s exists
    pins,                   \* main.py:23   output level of relay1, relay2
    files,                  \* the flash file system: file name -> content
    rtc,                    \* utime.time(): the device clock, seconds since 2000-01-01
    ticks_ms,               \* utime.ticks_ms(): milliseconds since power-on
    pc,                     \* position of the main program
    pinLog,                 \* the pin writes of the last step, in order
    httpLog,                \* the URLs requested in the last step, in order
    response,               \* what the last web request was answered with
    ret,                    \* the value returned by the last sync/fetch call
    evalLog,                \* the trigger evaluations run so far
    issued,                 \* the session tokens handed out by /login so far
    setup_mode,             \* run_setup_mode has been entered
    passes,                 \* passes of the main loop completed so far
    request,                \* the web request handled in this step, if any
    touch_pos,              \* main.py:708  what touch.get_touch last returned
    wdt_fed,                \* ticks_ms at the last wdt.feed()
    wdt_gap,                \* the longest time between two feeds in the last step
    display,                \* main.py:177-194  init_display left a display object
    ntpLog,                 \* the ntptime.settime() attempts of the last step, in order
    local_time,             \* what get_local_time() last returned to the caller of SpecTime
    touch_before            \* the sample before touch_pos, in the step that sampled it

vars == <<schedule, next_bell_event, schedule_manifest, display_on,
          last_activity_time, holiday_mode, last_status_line,
          wifi_connection_failed, active_schedule_name, current_session_id,
          relay_status, touch_lock, long_press_triggered, touch_start_time,
          held_button, last_check_minute, last_wifi_check, sock, pins, files, rtc, ticks_ms, pc,
          pinLog, httpLog, response, ret, evalLog, issued, setup_mode, passes, request,
          touch_pos, wdt_fed, wdt_gap, display, ntpLog, local_time, touch_before>>

-----------------------------------------------------------------------------
(* Python values *)

\* Python's None where the code holds a str or a tuple, and where it holds a
\* parsed JSON object.
None == <<"<None>">>
NoneJSON == [py_none |-> TRUE]

\* A web request is its method, its path, its headers (lower-case name ->
\* value) and its decoded body; NoRequest when a step handled none.
NoRequest == [method |-> "-", path |-> "-", headers |-> <<>>, body |-> ""]

\* d[k] = v on a dict.
DictSet(d, k, v) == [q \in DOMAIN d \cup {k} |-> IF q = k THEN v ELSE d[q]]

\* d.get(k, default).
DictGet(d, k, default) == IF k \in DOMAIN d THEN d[k] ELSE default

\* The characters the time strings are made of, in code point order
\* ("0".."9" are 48..57 and ":" is 58).
Chars == <<"0", "1", "2", "3", "4", "5", "6", "7", "8", "9", ":">>

CharCode(c) == 47 + (CHOOSE i \in 1..Len(Chars) : Chars[i] = c)

\* a < b on two str, as Python orders them: by the first differing character,
\* a proper prefix first.
RECURSIVE StrLess(_, _)
StrLess(a, b) ==
    IF b = <<>> THEN FALSE
    ELSE IF a = <<>> THEN TRUE
    ELSE IF Head(a) # Head(b) THEN CharCode(Head(a)) < CharCode(Head(b))
    ELSE StrLess(Tail(a), Tail(b))

\* int(s) on a str of decimal digits.
RECURSIVE ParseInt(_)
ParseInt(s) ==
    IF s = <<>> THEN 0
    ELSE 10 * ParseInt(SubSeq(s, 1, Len(s) - 1)) + (CharCode(s[Len(s)]) - 48)

\* s.split(':') on a str with one colon: <<before, after>>.
SplitColon(s) ==
    LET i == CHOOSE j \in 1..Len(s) : s[j] = ":" /\ \A k \in 1..(j - 1) : s[k] # ":"
    IN  <<SubSeq(s, 1, i - 1), SubSeq(s, i + 1, Len(s))>>

\* str(n) for n >= 0.
RECURSIVE Str(_)
Str(n) == IF n < 10 THEN <<Chars[n + 1]>> ELSE Str(n \div 10) \o <<Chars[(n % 10) + 1]>>

\* f"{n:02d}" for n >= 0.
Fmt02(n) == IF n < 10 THEN <<"0">> \o Str(n) ELSE Str(n)

\* f"{h:02d}:{m:02d}".
FmtHHMM(h, m) == Fmt02(h) \o <<":">> \o Fmt02(m)

-----------------------------------------------------------------------------
(* utime: calendar arithmetic on seconds since 2000-01-01 00:00:00 *)

\* Days from 2000-01-01 to the civil date y-m-d.
DaysFromCivil(y, m, d) ==
    LET yy  == IF m <= 2 THEN y - 1 ELSE y
        era == yy \div 400
        yoe == yy - era * 400
        mp  == IF m > 2 THEN m - 3 ELSE m + 9
        doy == (153 * mp + 2) \div 5 + d - 1
        doe == yoe * 365 + yoe \div 4 - yoe \div 100 + doy
    IN  era * 146097 + doe - 719468 - 10957

\* utime.mktime((y, mo, d, h, mi, s, _, _)).
mktime(dt) == DaysFromCivil(dt[1], dt[2], dt[3]) * 86400 + dt[4] * 3600 + dt[5] * 60 + dt[6]

\* utime.localtime(secs): <<year, month, mday, hour, minute, second, weekday>>,
\* weekday 0 = Monday.  Python's now[i] is here t[i + 1].
localtime(secs) ==
    LET days == secs \div 86400
        rem  == secs % 86400
        z    == days + 10957 + 719468
        era  == z \div 146097
        Civil(doe, yoe, doy, mp) ==
            LET d == doy - (153 * mp + 2) \div 5 + 1
                m == IF mp < 10 THEN mp + 3 ELSE mp - 9
                y == (yoe + era * 400) + (IF m <= 2 THEN 1 ELSE 0)
            IN  <<y, m, d, rem \div 3600, (rem % 3600) \div 60, rem % 60, (days + 5) % 7>>
        OfDoy(doe, yoe, doy) == Civil(doe, yoe, doy, (5 * doy + 2) \div 153)
        OfYoe(doe, yoe) == OfDoy(doe, yoe, doe - (365 * yoe + yoe \div 4 - yoe \div 100))
        OfDoe(doe) ==
            OfYoe(doe, (doe - doe \div 1460 + doe \div 36524 - doe \div 146096) \div 365)
    IN  OfDoe(z - era * 146097)

TIMEZONE == "Europe/London"

\* is_bst with "hour <= 1" in October: summer time ends an hour late.
is_bst_EndsLate(dt) ==
    LET year == dt[1]
        month == dt[2]
        day == dt[3]
        hour == dt[4]
        InSummer(last_sunday) ==
            IF month < 3 \/ month > 10 THEN FALSE
            ELSE IF month > 3 /\ month < 10 THEN TRUE
            ELSE IF month = 3 THEN day > last_sunday \/ (day = last_sunday /\ hour >= 1)
            ELSE IF month = 10 THEN day < last_sunday \/ (day = last_sunday /\ hour <= 1)
            ELSE FALSE
    IN  InSummer(31 - ((localtime(mktime(<<year, month, 31, 1, 0, 0, 0, 0>>))[7] + 1) % 7))

is_bst(dt) ==
    LET year == dt[1]
        month == dt[2]
        day == dt[3]
        hour == dt[4]
        InSummer(last_sunday) ==
            IF month < 3 \/ month > 10 THEN FALSE
            ELSE IF month > 3 /\ month < 10 THEN TRUE
            ELSE IF month = 3 THEN day > last_sunday \/ (day = last_sunday /\ hour >= 1)
            ELSE IF month = 10 THEN day < last_sunday \/ (day = last_sunday /\ hour < 1)
            ELSE FALSE
    IN  InSummer(31 - ((localtime(mktime(<<year, month, 31, 1, 0, 0, 0, 0>>))[7] + 1) % 7))

\* get_local_time() when the device clock reads t.
LocalTimeAt(t) ==
    LET Local(utc_now_tuple) ==
            IF TIMEZONE = "Europe/London" /\ is_bst(utc_now_tuple)
            THEN localtime(mktime(utc_now_tuple) + 3600)
            ELSE utc_now_tuple
    IN  Local(localtime(t))

get_local_time(g) == LocalTimeAt(g.rtc)

-----------------------------------------------------------------------------
(* The globals as one record, and back *)

Globals ==
    [schedule |-> schedule, next_bell_event |-> next_bell_event,
     schedule_manifest |-> schedule_manifest, display_on |-> display_on,
     last_activity_time |-> last_activity_time, holiday_mode |-> holiday_mode,
     last_status_line |-> last_status_line,
     wifi_connection_failed |-> wifi_connection_failed,
     active_schedule_name |-> active_schedule_name,
     current_session_id |-> current_session_id, relay_status |-> relay_status,
     touch_lock |-> touch_lock, long_press_triggered |-> long_press_triggered,
     touch_start_time |-> touch_start_time, held_button |-> held_button,
     last_check_minute |-> last_check_minute,
     last_wifi_check |-> last_wifi_check, sock |-> sock, pins |-> pins, files |-> files,
     rtc |-> rtc, ticks_ms |-> ticks_ms, pinLog |-> pinLog, httpLog |-> httpLog,
     response |-> response, ret |-> ret, evalLog |-> evalLog, issued |-> issued,
     setup_mode |-> setup_mode, passes |-> passes, request |-> request,
     touch_pos |-> touch_pos, wdt_fed |-> wdt_fed, wdt_gap |-> wdt_gap,
     display |-> display, ntpLog |-> ntpLog, local_time |-> local_time,
     touch_before |-> touch_before]

\* The variables hold the globals g.
Start(g) ==
    /\ schedule = g.schedule
    /\ next_bell_event = g.next_bell_event
    /\ schedule_manifest = g.schedule_manifest
    /\ display_on = g.display_on
    /\ last_activity_time = g.last_activity_time
    /\ holiday_mode = g.holiday_mode
    /\ last_status_line = g.last_status_line
    /\ wifi_connection_failed = g.wifi_connection_failed
    /\ active_schedule_name = g.active_schedule_name
    /\ current_session_id = g.current_session_id
    /\ relay_status = g.relay_status
    /\ touch_lock = g.touch_lock
    /\ long_press_triggered = g.long_press_triggered
    /\ touch_start_time = g.touch_start_time
    /\ held_button = g.held_button
    /\ last_check_minute = g.last_check_minute
    /\ last_wifi_check = g.last_wifi_check
    /\ sock = g.sock
    /\ pins = g.pins
    /\ files = g.files
    /\ rtc = g.rtc
    /\ ticks_ms = g.ticks_ms
    /\ pinLog = g.pinLog
    /\ httpLog = g.httpLog
    /\ response = g.response
    /\ ret = g.ret
    /\ evalLog = g.evalLog
    /\ issued = g.issued
    /\ setup_mode = g.setup_mode
    /\ passes = g.passes
    /\ request = g.request
    /\ touch_pos = g.touch_pos
    /\ wdt_fed = g.wdt_fed
    /\ wdt_gap = g.wdt_gap
    /\ display = g.display
    /\ ntpLog = g.ntpLog
    /\ local_time = g.local_time
    /\ touch_before = g.touch_before

\* The step leaves the globals as g.
Commit(g) ==
    /\ schedule' = g.schedule
    /\ next_bell_event' = g.next_bell_event
    /\ schedule_manifest' = g.schedule_manifest
    /\ display_on' = g.display_on
    /\ last_activity_time' = g.last_activity_time
    /\ holiday_mode' = g.holiday_mode
    /\ last_status_line' = g.last_status_line
    /\ wifi_connection_failed' = g.wifi_connection_failed
    /\ active_schedule_name' = g.active_schedule_name
    /\ current_session_id' = g.current_session_id
    /\ relay_status' = g.relay_status
    /\ touch_lock' = g.touch_lock
    /\ long_press_triggered' = g.long_press_triggered
    /\ touch_start_time' = g.touch_start_time
    /\ held_button' = g.held_button
    /\ last_check_minute' = g.last_check_minute
    /\ last_wifi_check' = g.last_wifi_check
    /\ sock' = g.sock
    /\ pins' = g.pins
    /\ files' = g.files
    /\ rtc' = g.rtc
    /\ ticks_ms' = g.ticks_ms
    /\ pinLog' = g.pinLog
    /\ httpLog' = g.httpLog
    /\ response' = g.response
    /\ ret' = g.ret
    /\ evalLog' = g.evalLog
    /\ issued' = g.issued
    /\ setup_mode' = g.setup_mode
    /\ passes' = g.passes
    /\ request' = g.request
    /\ touch_pos' = g.touch_pos
    /\ wdt_fed' = g.wdt_fed
    /\ wdt_gap' = g.wdt_gap
    /\ display' = g.display
    /\ ntpLog' = g.ntpLog
    /\ local_time' = g.local_time
    /\ touch_before' = g.touch_before

\* The records of the last step are cleared when a step begins.
Fresh(g) ==
    [g EXCEPT !.pinLog = <<>>, !.httpLog = <<>>, !.response = "none", !.ret = "none",
              !.request = NoRequest, !.wdt_gap = 0, !.ntpLog = <<>>, !.touch_before = <<>>]

\* utime.sleep(seconds), and any wait: both clocks advance together.
Elapse(g, ms) ==
    [g EXCEPT !.ticks_ms = g.ticks_ms + ms,
              !.rtc = g.rtc + ((g.ticks_ms + ms) \div 1000 - g.ticks_ms \div 1000)]

\* wdt = WDT(timeout=8388) (main.py:756): milliseconds.
WDT_TIMEOUT == 8388

\* wdt.feed(): the time since the feed before it counts towards the longest
\* time the watchdog went unfed.
feed(g) ==
    [g EXCEPT !.wdt_fed = g.ticks_ms,
              !.wdt_gap = IF g.ticks_ms - g.wdt_fed > g.wdt_gap
                          THEN g.ticks_ms - g.wdt_fed ELSE g.wdt_gap]

-----------------------------------------------------------------------------
(* Display *)

wake_display(g) ==
    [g EXCEPT !.display_on = TRUE, !.last_activity_time = g.rtc]

\* update_display(status_line): without a display object it returns at line
\* 223, before wake_display().
update_display(g, status_line) ==
    IF g.display THEN wake_display([g EXCEPT !.last_status_line = status_line])
    ELSE [g EXCEPT !.last_status_line = status_line]

-----------------------------------------------------------------------------
(* Core logic: find_next_bell *)

DAYS_OF_WEEK == <<"Mon", "Tue", "Wed", "Thu", "Fri", "Sat", "Sun">>

\* str(day_idx) for a weekday index 0..6.
DayStr(day_idx) == <<"0", "1", "2", "3", "4", "5", "6">>[day_idx + 1]

\* The key sorted() orders the events by: x.get('time', '').
TimeKey(event) == DictGet(event, "time", <<>>)

\* sorted(events, key=...) as the list of the positions of the events in the
\* order sorted() returns them: ascending by key, equal keys in list order.
RECURSIVE SortedPositions(_, _)
SortedPositions(events, n) ==
    IF n = 0 THEN <<>>
    ELSE LET before == SortedPositions(events, n - 1)
             \* sorted() is stable: the n-th event goes after every earlier
             \* event whose key is not greater than its own.
             keep == CHOOSE k \in 0..Len(before) :
                        /\ \A i \in 1..k : ~StrLess(TimeKey(events[n]), TimeKey(events[before[i]]))
                        /\ \A i \in (k + 1)..Len(before) :
                              StrLess(TimeKey(events[n]), TimeKey(events[before[i]]))
         IN  SubSeq(before, 1, keep) \o <<n>> \o SubSeq(before, keep + 1, Len(before))

\* int(t[0])*60+int(t[1]) for t = event['time'].split(':').
EventMins(event) ==
    LET t == SplitColon(event["time"])
    IN  ParseInt(t[1]) * 60 + ParseInt(t[2])

\* ScanDay with the comparison of line 294 off by one: an event of today at
\* exactly the current minute is not skipped.
RECURSIVE ScanDay_SkipsOnlyEarlier(_, _, _, _, _)
ScanDay_SkipsOnlyEarlier(events, order, i, day_offset, now_mins) ==
    IF i > Len(order) THEN 0
    ELSE IF day_offset = 0 /\ EventMins(events[order[i]]) < now_mins
         THEN ScanDay_SkipsOnlyEarlier(events, order, i + 1, day_offset, now_mins)
         ELSE order[i]

\* The inner loop of find_next_bell over one day: the position in
\* schedule[day_str] of the first event, in sorted order, that is not
\* skipped; 0 when every event is skipped.
RECURSIVE ScanDay(_, _, _, _, _)
ScanDay(events, order, i, day_offset, now_mins) ==
    IF i > Len(order) THEN 0
    ELSE IF day_offset = 0 /\ EventMins(events[order[i]]) <= now_mins
         THEN ScanDay(events, order, i + 1, day_offset, now_mins)
         ELSE order[i]

\* The outer loop of find_next_bell from day_offset on: <<day_idx, position>>
\* of the event found, <<>> when the loop runs out.
RECURSIVE ScanOffsets(_, _, _, _)
ScanOffsets(sched, now, now_mins, day_offset) ==
    IF day_offset >= 7 THEN <<>>
    ELSE LET day_idx == (now[7] + day_offset) % 7
             day_str == DayStr(day_idx)
         IN  IF day_str \in DOMAIN sched /\ sched[day_str] # <<>>
             THEN LET events == sched[day_str]
                      hit == ScanDay(events, SortedPositions(events, Len(events)),
                                     1, day_offset, now_mins)
                  IN  IF hit # 0 THEN <<day_idx, hit>>
                      ELSE ScanOffsets(sched, now, now_mins, day_offset + 1)
             ELSE ScanOffsets(sched, now, now_mins, day_offset + 1)

\* find_next_bell taking the event it finds out of the schedule.
find_next_bell_Consumes(g) ==
    LET Store(day_str, i, event) ==
            [g EXCEPT !.next_bell_event = event,
                      !.schedule = [g.schedule EXCEPT ![day_str] =
                                       SubSeq(@, 1, i - 1) \o SubSeq(@, i + 1, Len(@))]]
        Found(found) ==
            IF found = <<>> THEN [g EXCEPT !.next_bell_event = <<>>]
            ELSE Store(DayStr(found[1]), found[2],
                       DictSet(g.schedule[DayStr(found[1])][found[2]], "day_name",
                               DAYS_OF_WEEK[found[1] + 1]))
        At(now) == Found(ScanOffsets(g.schedule, now, now[4] * 60 + now[5], 0))
    IN  IF g.schedule = <<>> THEN [g EXCEPT !.next_bell_event = <<>>]
        ELSE At(get_local_time(g))

\* find_next_bell().  next_bell_event is the event object of the schedule
\* itself, so the day_name it is given is written into the schedule too.
find_next_bell(g) ==
    LET Store(day_str, i, event) ==
            [g EXCEPT !.next_bell_event = event,
                      !.schedule = [g.schedule EXCEPT ![day_str][i] = event]]
        Found(found) ==
            IF found = <<>> THEN [g EXCEPT !.next_bell_event = <<>>]
            ELSE Store(DayStr(found[1]), found[2],
                       DictSet(g.schedule[DayStr(found[1])][found[2]], "day_name",
                               DAYS_OF_WEEK[found[1] + 1]))
        At(now) == Found(ScanOffsets(g.schedule, now, now[4] * 60 + now[5], 0))
    IN  IF g.schedule = <<>> THEN [g EXCEPT !.next_bell_event = <<>>]
        ELSE At(get_local_time(g))

-----------------------------------------------------------------------------
(* Config management, schedule and holiday files (main.py:104-159) *)

HOLIDAY_STATUS_FILE == "holiday.dat"
SCHEDULE_CACHE_FILE == "schedule.json"
ACTIVE_SCHEDULE_FILE == "active_schedule.txt"

\* str.strip() on the values the files of the model hold: of these only the
\* schedule name with a trailing blank begins or ends with white space.
strip(s) == IF s = "Half Day " THEN "Half Day" ELSE s

save_active_schedule_name(g, name) ==
    [g EXCEPT !.active_schedule_name = name,
              !.files = DictSet(g.files, ACTIVE_SCHEDULE_FILE, name)]

load_active_schedule_name(g) ==
    IF ACTIVE_SCHEDULE_FILE \in DOMAIN g.files
    THEN [g EXCEPT !.active_schedule_name = strip(g.files[ACTIVE_SCHEDULE_FILE])]
    ELSE g

\* ujson.dump writes the document as JSON text, which ujson.load reads back
\* as the same document: its keys are str and its values str, int and lists.
save_schedule_to_cache(g, data) ==
    [g EXCEPT !.files = DictSet(g.files, SCHEDULE_CACHE_FILE, data)]

load_schedule_from_cache(g) ==
    IF SCHEDULE_CACHE_FILE \in DOMAIN g.files
    THEN find_next_bell([g EXCEPT !.schedule = g.files[SCHEDULE_CACHE_FILE]])
    ELSE [g EXCEPT !.schedule = <<>>]

save_holiday_status(g, status) ==
    [g EXCEPT !.holiday_mode = status,
              !.files = DictSet(g.files, HOLIDAY_STATUS_FILE, IF status THEN "1" ELSE "0")]

load_holiday_status(g) ==
    IF HOLIDAY_STATUS_FILE \in DOMAIN g.files
    THEN [g EXCEPT !.holiday_mode = (strip(g.files[HOLIDAY_STATUS_FILE]) = "1")]
    ELSE save_holiday_status(g, FALSE)

-----------------------------------------------------------------------------
(* Network: NTP and HTTPS (main.py:330-370) *)

\* sync_time(wdt).  ntp is what the network does to this call: its first
\* ntp.fails attempts raise, each followed by utime.sleep(3), and a successful
\* settime() moves the device clock by ntp.step seconds, to the true time.
RECURSIVE SyncAttempts(_, _, _)
SyncAttempts(g, ntp, i) ==
    IF i > 3 THEN [update_display(g, "NTP Sync Fail") EXCEPT !.ret = "False"]
    ELSE IF i > ntp.fails
    THEN [update_display([feed(g) EXCEPT !.rtc = g.rtc + ntp.step,
                                         !.ntpLog = Append(g.ntpLog, [ok |-> TRUE, at |-> g.ticks_ms])],
                         "Time Synced OK")
            EXCEPT !.ret = "True"]
    ELSE SyncAttempts(Elapse([feed(g) EXCEPT !.ntpLog = Append(g.ntpLog, [ok |-> FALSE, at |-> g.ticks_ms])],
                             3000),
                      ntp, i + 1)

sync_time(g, ntp) == SyncAttempts(update_display(g, "Syncing time..."), ntp, 1)

\* The value https_get_json(url) returns when the servers are srv: the parsed
\* document srv.docs[url], None when the request or the parse fails.
https_get_json(srv, url) == DictGet(srv.docs, url, NoneJSON)

\* The request https_get_json(url) makes: it is recorded with what it
\* returned, and takes srv.wait milliseconds.
Requested(g, srv, url) ==
    Elapse([g EXCEPT !.httpLog = Append(g.httpLog,
                        [url |-> url, got |-> https_get_json(srv, url), at |-> g.ticks_ms])],
           srv.wait)

-----------------------------------------------------------------------------
(* fetch_manifest_and_schedule (main.py:372-404) *)

SCHEDULE_MANIFEST_URL == "https://example.com/schedule_manifest.php"

\* manifest["schedules"] as ujson.load leaves it: a MicroPython dict, which
\* is a hash table and iterates over its keys in the order of their slots,
\* not in the order they were inserted.  d.pairs is the <<name, filename>>
\* entries in the order of the document, d.iter the names in the order the
\* dict iterates.  name in d, d[name] and next(iter(d)):
HasName(d, name) == \E i \in 1..Len(d.pairs) : d.pairs[i][1] = name
FileOf(d, name) == d.pairs[CHOOSE i \in 1..Len(d.pairs) : d.pairs[i][1] = name][2]
FirstName(d) == d.iter[1]

\* A JSON array as ujson.loads returns it: a Python list.
List(items) == [py_list |-> items]
IsList(x) == x # <<>> /\ "py_list" \in DOMAIN x

\* "not x" for a value https_get_json returned: None, {} and [] are falsy.
Falsy(x) == x = NoneJSON \/ x = <<>> \/ x = List(<<>>)

\* "k in x" for a truthy value https_get_json returned: k is a key of the
\* dict x, an element of the list x.
In(k, x) ==
    IF IsList(x) THEN \E i \in 1..Len(x.py_list) : x.py_list[i] = k
    ELSE k \in DOMAIN x

\* An exception is on its way out of the function that left the globals as g.
Raised(g) == g.ret = "raised"

\* The rest of fetch_manifest_and_schedule once the manifest is accepted and
\* the active name is settled (lines 389-404).
FetchSchedule(g, srv) ==
    LET schedule_filename == FileOf(g.schedule_manifest["schedules"], g.active_schedule_name)
        schedule_url == g.schedule_manifest["base_url"] \o schedule_filename
        g1 == update_display(g, "Fetching schedule...")
        new_schedule == https_get_json(srv, schedule_url)
        g2 == Requested(g1, srv, schedule_url)
    IN  IF ~Falsy(new_schedule)
        THEN LET g3 == [g2 EXCEPT !.schedule = new_schedule]
                 g4 == save_schedule_to_cache(g3, g3.schedule)
                 g5 == find_next_bell(g4)
             IN  [update_display(g5, "Schedule OK") EXCEPT !.ret = "True"]
        ELSE [update_display(g2, "Schedule DL Fail") EXCEPT !.ret = "False"]

fetch_manifest_and_schedule(g, srv) ==
    LET g1 == update_display(g, "Fetching manifest...")
        new_manifest == https_get_json(srv, SCHEDULE_MANIFEST_URL)
        g2 == Requested(g1, srv, SCHEDULE_MANIFEST_URL)
        Settled(g3) ==
            IF ~HasName(g3.schedule_manifest["schedules"], g3.active_schedule_name)
            THEN save_active_schedule_name(g3, FirstName(g3.schedule_manifest["schedules"]))
            ELSE g3
        \* Line 382, and line 385: a list has no item "schedules" (TypeError).
        Accepted(g3) ==
            IF IsList(g3.schedule_manifest) THEN [g3 EXCEPT !.ret = "raised"]
            ELSE FetchSchedule(Settled(g3), srv)
    IN  IF \/ Falsy(new_manifest)
           \/ ~In("schedules", new_manifest)
           \/ ~In("base_url", new_manifest)
        THEN [update_display(g2, "Manifest Invalid") EXCEPT !.ret = "False"]
        ELSE Accepted([g2 EXCEPT !.schedule_manifest = new_manifest])

-----------------------------------------------------------------------------
(* activate_relay (main.py:406-414) *)

RELAY_ON_DURATION == 1

\* target.value(level) on relay1 (pin 1) or relay2 (pin 2); the log keeps what
\* relay_status read at the moment of the write.
PinWrite(g, pin, level) ==
    [g EXCEPT !.pins[pin] = level,
              !.pinLog = Append(g.pinLog, [pin |-> pin, level |-> level, at |-> g.ticks_ms,
                                           status |-> g.relay_status])]

\* activate_relay holding the relay for RELAY_ON_DURATION whatever duration
\* it is given.
activate_relay_DefaultHold(g, relay_number, duration) ==
    LET target == IF relay_number = 1 THEN 1 ELSE 2
        g1 == [g EXCEPT !.relay_status = DictSet(g.relay_status, Str(relay_number), "ON")]
        g2 == update_display(g1, "Relay ON")
        g3 == PinWrite(g2, target, 1)
        g4 == Elapse(g3, RELAY_ON_DURATION * 1000)
        g5 == PinWrite(g4, target, 0)
    IN  [g5 EXCEPT !.relay_status = DictSet(g5.relay_status, Str(relay_number), "OFF")]

\* activate_relay without target.value(0): the relay is left switched on.
activate_relay_NoOff(g, relay_number, duration) ==
    LET target == IF relay_number = 1 THEN 1 ELSE 2
        g1 == [g EXCEPT !.relay_status = DictSet(g.relay_status, Str(relay_number), "ON")]
        g2 == update_display(g1, "Relay ON")
        g3 == PinWrite(g2, target, 1)
    IN  Elapse(g3, duration * 1000)

activate_relay(g, relay_number, duration) ==
    LET target == IF relay_number = 1 THEN 1 ELSE 2
        g1 == [g EXCEPT !.relay_status = DictSet(g.relay_status, Str(relay_number), "ON")]
        g2 == update_display(g1, "Relay ON")
        g3 == PinWrite(g2, target, 1)
        g4 == Elapse(g3, duration * 1000)
        g5 == PinWrite(g4, target, 0)
    IN  [g5 EXCEPT !.relay_status = DictSet(g5.relay_status, Str(relay_number), "OFF")]

-----------------------------------------------------------------------------
(* Web server: handle_web_request (main.py:496-629) *)

WEB_INTERFACE_PASSWORD == "your_password_here"
API_KEY == "your_long_random_api_key_here"

\* f'session={current_session_id}'.
SessionCookie(id) ==
    <<"s", "e", "s", "s", "i", "o", "n", "=">>
        \o (IF id = None THEN <<"N", "o", "n", "e">> ELSE id)

api_readonly_paths == {"/holidaystatus", "/schedule_status"}

\* set_schedule_action(name) (lines 582-587).
set_schedule_action(g, name, srv) ==
    IF IsList(g.schedule_manifest) THEN [g EXCEPT !.ret = "raised"]
    ELSE IF "schedules" \in DOMAIN g.schedule_manifest
            /\ HasName(g.schedule_manifest["schedules"], name)
    THEN fetch_manifest_and_schedule(save_active_schedule_name(g, name), srv)
    ELSE g

\* perform_ota_update when the repository holds no update (lines 417-444):
\* the updater itself is an external collaborator.
perform_ota_update(g) == update_display(Elapse(g, 3000), g.last_status_line)

\* The authenticated routes (lines 581-622).  An exception of an action is
\* caught at line 624 and no response is sent.
AuthenticatedRoute(g, req, srv, ntp) ==
    LET path == req.path
        Send(g2, resp) ==
            IF Raised(g2) THEN [g2 EXCEPT !.ret = "caught"] ELSE [g2 EXCEPT !.response = resp]
    IN  IF path = "/force-update"
        THEN Send(fetch_manifest_and_schedule(sync_time(g, ntp), srv), "200:action")
        ELSE IF path = "/test-relay1"
        THEN [activate_relay(g, 1, RELAY_ON_DURATION) EXCEPT !.response = "200:action"]
        ELSE IF path = "/test-relay2"
        THEN [activate_relay(g, 2, RELAY_ON_DURATION) EXCEPT !.response = "200:action"]
        ELSE IF path = "/holidayon"
        THEN [save_holiday_status(g, TRUE) EXCEPT !.response = "200:action"]
        ELSE IF path = "/holidayoff"
        THEN [save_holiday_status(g, FALSE) EXCEPT !.response = "200:action"]
        ELSE IF path = "/set_schedule_normal"
        THEN Send(set_schedule_action(g, "Normal Day", srv), "200:action")
        ELSE IF path = "/set_schedule_half"
        THEN Send(set_schedule_action(g, "Half Day", srv), "200:action")
        ELSE IF req.method = "POST" /\ path = "/set_schedule"
        THEN Send(fetch_manifest_and_schedule(save_active_schedule_name(g, req.body), srv),
                  "303:/")
        ELSE IF path = "/ota_update"
        THEN [perform_ota_update(g) EXCEPT !.response = "200:ota"]
        ELSE IF path = "/" THEN [g EXCEPT !.response = "200:status"]
        ELSE IF path = "/diagnostics" THEN [g EXCEPT !.response = "200:diagnostics"]
        ELSE IF path = "/log" THEN [g EXCEPT !.response = "200:log"]
        ELSE [g EXCEPT !.response = "404"]

\* is_authenticated without "current_session_id is not None".
IsAuthenticated_NoneAccepted(g, req) ==
    DictGet(req.headers, "cookie", None) = SessionCookie(g.current_session_id)

\* is_authenticated (line 532).
IsAuthenticated(g, req) ==
    /\ DictGet(req.headers, "cookie", None) = SessionCookie(g.current_session_id)
    /\ g.current_session_id # None

\* is_api_key_valid (lines 530-531).
IsApiKeyValid(req) ==
    "x-api-key" \in DOMAIN req.headers /\ req.headers["x-api-key"] = API_KEY

\* /login (lines 541-553).
LoginRoute(g, req) ==
    IF req.method = "POST"
    THEN IF req.body = WEB_INTERFACE_PASSWORD
         THEN [g EXCEPT !.current_session_id = Str(g.rtc),
                        !.issued = Append(g.issued, Str(g.rtc)),
                        !.response = "303:/ set-cookie"]
         ELSE [g EXCEPT !.response = "200:login failed"]
    ELSE [g EXCEPT !.response = "200:login"]

\* /logout answering the redirect and leaving the session as it is.
LogoutRoute_KeepsSession(g) == [g EXCEPT !.response = "303:/login"]

\* /logout (lines 555-558).
LogoutRoute(g) == [g EXCEPT !.current_session_id = None, !.response = "303:/login"]

\* The read-only routes behind has_permission instead of is_api_key_valid.
ReadOnlyRoute_CookieAccepted(g, req) ==
    IF IsApiKeyValid(req) \/ IsAuthenticated(g, req)
    THEN [g EXCEPT !.response = IF req.path = "/holidaystatus"
                                THEN "200:holidaystatus" ELSE "200:schedule_status"]
    ELSE [g EXCEPT !.response = "401"]

\* The read-only API routes (lines 561-570).
ReadOnlyRoute(g, req) ==
    IF IsApiKeyValid(req)
    THEN [g EXCEPT !.response = IF req.path = "/holidaystatus"
                                THEN "200:holidaystatus" ELSE "200:schedule_status"]
    ELSE [g EXCEPT !.response = "401"]

\* handle_web_request ending the session when it rejects a request.
handle_web_request_RejectEndsSession(g, req, srv, ntp) ==
    LET g1 == wake_display([g EXCEPT !.request = req])
        api_key_provided == "x-api-key" \in DOMAIN req.headers
        is_api_key_valid == IsApiKeyValid(req)
        is_authenticated == IsAuthenticated(g1, req)
        has_permission == is_authenticated \/ is_api_key_valid
    IN  IF req.path = "/login" THEN LoginRoute(g1, req)
        ELSE IF req.path = "/logout" THEN LogoutRoute(g1)
        ELSE IF req.path \in api_readonly_paths THEN ReadOnlyRoute(g1, req)
        ELSE IF ~has_permission
        THEN IF api_key_provided
             THEN [g1 EXCEPT !.response = "401", !.current_session_id = None]
             ELSE [g1 EXCEPT !.response = "303:/login", !.current_session_id = None]
        ELSE AuthenticatedRoute(g1, req, srv, ntp)

\* handle_web_request(cl, wdt) for a request that arrived whole.
handle_web_request(g, req, srv, ntp) ==
    LET g1 == wake_display([g EXCEPT !.request = req])
        api_key_provided == "x-api-key" \in DOMAIN req.headers
        is_api_key_valid == IsApiKeyValid(req)
        is_authenticated == IsAuthenticated(g1, req)
        has_permission == is_authenticated \/ is_api_key_valid
    IN  IF req.path = "/login" THEN LoginRoute(g1, req)
        ELSE IF req.path = "/logout" THEN LogoutRoute(g1)
        ELSE IF req.path \in api_readonly_paths THEN ReadOnlyRoute(g1, req)
        ELSE IF ~has_permission
        THEN IF api_key_provided
             THEN [g1 EXCEPT !.response = "401"]
             ELSE [g1 EXCEPT !.response = "303:/login"]
        ELSE AuthenticatedRoute(g1, req, srv, ntp)

-----------------------------------------------------------------------------
(* WiFi (main.py:301-328) *)

\* connect_wifi(wdt).  wlan is what the radio does: wlan.connected when it is
\* connected already; otherwise wlan.status() reaches 3 or more after
\* wlan.polls one-second polls (never, when wlan.polls is 15 or more), and
\* wlan.joined tells whether that status is 3.
\* The wait of lines 311-316 from max_wait down: wdt.feed() before every
\* poll of wlan.status().
RECURSIVE WaitForWlan(_, _, _)
WaitForWlan(g, wlan, max_wait) ==
    IF max_wait <= 0 THEN g
    ELSE IF 15 - max_wait >= wlan.polls THEN feed(g)
    ELSE WaitForWlan(Elapse(feed(g), 1000), wlan, max_wait - 1)

connect_wifi(g, wlan) ==
    LET Joined(g2) ==
            IF wlan.connected \/ (wlan.polls < 15 /\ wlan.joined)
            THEN [update_display([g2 EXCEPT !.wifi_connection_failed = FALSE],
                                 "WiFi Connected") EXCEPT !.ret = "True"]
            ELSE [update_display([g2 EXCEPT !.wifi_connection_failed = TRUE],
                                 "WiFi Connect Fail") EXCEPT !.ret = "False"]
    IN  Joined(IF wlan.connected THEN g
               ELSE WaitForWlan(update_display(g, "Connecting..."), wlan, 15))

-----------------------------------------------------------------------------
(* Display power (main.py:203-207) *)

SCREEN_OFF_TIMEOUT == 300

manage_display_power(g) ==
    IF g.display_on /\ g.rtc - g.last_activity_time > SCREEN_OFF_TIMEOUT
    THEN [g EXCEPT !.display_on = FALSE]
    ELSE g

-----------------------------------------------------------------------------
(* Touch: handle_touch (main.py:704-753) *)

DISPLAY_WIDTH == 240

\* (x, y, w, h) of the three buttons (line 43).
SYNC_BUTTON_RECT == <<DISPLAY_WIDTH - 85, 5, 80, 40>>
HOLIDAY_BUTTON_RECT == <<5, 5, 80, 40>>
SETUP_BUTTON_RECT == <<DISPLAY_WIDTH \div 2 - 75, 100, 150, 40>>

\* btn_x <= x <= btn_x + btn_w and btn_y <= y <= btn_y + btn_h.
InRect(pos, rect) ==
    /\ rect[1] <= pos[1] /\ pos[1] <= rect[1] + rect[3]
    /\ rect[2] <= pos[2] /\ pos[2] <= rect[2] + rect[4]

\* The hit test with a Setup button that is live whatever the state of the
\* WiFi connection.
TouchDown_SetupAlways(g, pos) ==
    LET g1 == [g EXCEPT !.touch_lock = TRUE]
    IN  IF InRect(pos, SETUP_BUTTON_RECT)
        THEN [g1 EXCEPT !.held_button = "setup"]
        ELSE IF InRect(pos, SYNC_BUTTON_RECT)
        THEN [g1 EXCEPT !.held_button = "sync", !.touch_start_time = g.ticks_ms]
        ELSE IF InRect(pos, HOLIDAY_BUTTON_RECT)
        THEN [g1 EXCEPT !.held_button = "holiday", !.touch_start_time = g.ticks_ms,
                        !.ret = IF g.display THEN g.ret ELSE "raised"]
        ELSE g1

\* The hit test of the first sample of a touch (lines 717-733).  The Holiday
\* button is repainted at line 731: display.fill_rect raises AttributeError
\* when there is no display object.
TouchDown(g, pos) ==
    LET g1 == [g EXCEPT !.touch_lock = TRUE]
    IN  IF g.wifi_connection_failed /\ InRect(pos, SETUP_BUTTON_RECT)
        THEN [g1 EXCEPT !.held_button = "setup"]
        ELSE IF InRect(pos, SYNC_BUTTON_RECT)
        THEN [g1 EXCEPT !.held_button = "sync", !.touch_start_time = g.ticks_ms]
        ELSE IF InRect(pos, HOLIDAY_BUTTON_RECT)
        THEN [g1 EXCEPT !.held_button = "holiday", !.touch_start_time = g.ticks_ms,
                        !.ret = IF g.display THEN g.ret ELSE "raised"]
        ELSE g1

\* The long-press check of a sample (lines 735-739).
LongPress(g) ==
    IF Raised(g) THEN g
    ELSE IF g.held_button = "holiday" /\ ~g.long_press_triggered
            /\ g.ticks_ms - g.touch_start_time > 2000
    THEN LET g1 == [g EXCEPT !.long_press_triggered = TRUE]
             g2 == save_holiday_status(g1, ~g1.holiday_mode)
         IN  update_display(g2, g2.last_status_line)
    ELSE g

\* The release of the Sync button fetching only after a successful sync, as
\* the 07:30 evaluation does.
TouchReleased_SyncGatesFetch(g, srv, ntp) ==
    IF g.held_button = "setup"
    THEN [g EXCEPT !.setup_mode = TRUE, !.ret = IF g.display THEN g.ret ELSE "raised"]
    ELSE LET Reset(g2) ==
                 [g2 EXCEPT !.touch_lock = FALSE, !.held_button = "None",
                            !.touch_start_time = 0, !.long_press_triggered = FALSE]
             Redraw(g1) ==
                 IF Raised(g1) THEN g1
                 ELSE Reset(IF g1.touch_lock THEN update_display(g1, g1.last_status_line)
                            ELSE g1)
             Fetch(g4) ==
                 IF g4.ret = "True" THEN fetch_manifest_and_schedule(g4, srv) ELSE g4
             Sync(g3) ==
                 IF ~g3.display THEN [g3 EXCEPT !.ret = "raised"]
                 ELSE Fetch(sync_time(g3, ntp))
         IN  Redraw(IF g.held_button = "sync" /\ ~g.long_press_triggered
                    THEN Sync(g)
                    ELSE g)

\* The tick that samples no touch (lines 741-753).  run_setup_mode does not
\* return: the device serves the setup page until it is reset; its
\* display.fill (line 643) raises AttributeError when there is no display
\* object, after the access point has been brought up.  The Sync
\* button is repainted at line 745 before the sync: display.fill_rect raises
\* AttributeError when there is no display object.
TouchReleased(g, srv, ntp) ==
    IF g.held_button = "setup"
    THEN [g EXCEPT !.setup_mode = TRUE, !.ret = IF g.display THEN g.ret ELSE "raised"]
    ELSE LET Reset(g2) ==
                 [g2 EXCEPT !.touch_lock = FALSE, !.held_button = "None",
                            !.touch_start_time = 0, !.long_press_triggered = FALSE]
             Redraw(g1) ==
                 IF Raised(g1) THEN g1
                 ELSE Reset(IF g1.touch_lock THEN update_display(g1, g1.last_status_line)
                            ELSE g1)
             Sync(g3) ==
                 IF ~g3.display THEN [g3 EXCEPT !.ret = "raised"]
                 ELSE fetch_manifest_and_schedule(sync_time(g3, ntp), srv)
         IN  Redraw(IF g.held_button = "sync" /\ ~g.long_press_triggered
                    THEN Sync(g)
                    ELSE g)

\* Sampled without the latch of line 717: every sample of a touch is tested
\* against the buttons.
Sampled_NoLatch(g, pos, srv, ntp) ==
    IF pos # None
    THEN IF ~g.display_on
         THEN [wake_display(g) EXCEPT !.touch_lock = TRUE]
         ELSE LongPress(TouchDown(g, pos))
    ELSE TouchReleased(g, srv, ntp)

\* Sampled without the return of line 713: the sample that wakes the display
\* goes on to the hit test.
Sampled_WakeFallsThrough(g, pos, srv, ntp) ==
    IF pos # None
    THEN IF ~g.display_on
         THEN LongPress(TouchDown(wake_display(g), pos))
         ELSE LongPress(IF ~g.touch_lock THEN TouchDown(g, pos) ELSE g)
    ELSE TouchReleased(g, srv, ntp)

\* handle_touch(wdt) from line 710 on, when touch.get_touch returned pos
\* (None: no touch).
Sampled(g, pos, srv, ntp) ==
    IF pos # None
    THEN IF ~g.display_on
         THEN [wake_display(g) EXCEPT !.touch_lock = TRUE]
         ELSE LongPress(IF ~g.touch_lock THEN TouchDown(g, pos) ELSE g)
    ELSE TouchReleased(g, srv, ntp)

handle_touch(g, pos, srv, ntp) ==
    Sampled([g EXCEPT !.touch_pos = pos, !.touch_before = g.touch_pos], pos, srv, ntp)

-----------------------------------------------------------------------------
(* Main loop: the trigger evaluation (main.py:811-833) *)

\* The clock minute a local time tuple lies in: minutes since 2000-01-01 00:00
\* of the local clock.
ClockMinute(now) == mktime(now) \div 60

\* The loop of lines 824-830 from the i-th entry of today's list on.  The list
\* is the one the loop began with; find_next_bell changes no time, relay or
\* belllength in it.
RECURSIVE RingMatching(_, _, _, _)
RingMatching(g, day_str, i, current_time_str) ==
    IF i > Len(g.schedule[day_str]) THEN g
    ELSE LET entry == g.schedule[day_str][i]
             d == DictGet(entry, "belllength", RELAY_ON_DURATION)
             r == DictGet(entry, "relay", 0)
         IN  IF DictGet(entry, "time", None) = current_time_str /\ r # 0
             THEN RingMatching(
                      update_display(find_next_bell(activate_relay(g, r, d)), "Idle"),
                      day_str, i + 1, current_time_str)
             ELSE RingMatching(g, day_str, i + 1, current_time_str)

\* TriggerBells with a break after the first activation: of the entries due
\* at the current minute only the first is actuated.
TriggerBells_FirstDueOnly(g, now, srv, ntp) ==
    LET current_time_str == FmtHHMM(now[4], now[5])
        day_str == DayStr(now[7])
        events == IF day_str \in DOMAIN g.schedule THEN g.schedule[day_str] ELSE <<>>
        Due(i) == /\ DictGet(events[i], "time", None) = current_time_str
                  /\ DictGet(events[i], "relay", 0) # 0
    IN  IF \E i \in 1..Len(events) : Due(i)
        THEN LET i == CHOOSE k \in 1..Len(events) :
                          Due(k) /\ \A q \in 1..(k - 1) : ~Due(q)
                 entry == events[i]
             IN  update_display(
                     find_next_bell(
                         activate_relay(g, entry.relay,
                                        DictGet(entry, "belllength", RELAY_ON_DURATION))),
                     "Idle")
        ELSE g

\* Lines 816-830: the body of "if not holiday_mode".
TriggerBells(g, now, srv, ntp) ==
    LET current_time_str == FmtHHMM(now[4], now[5])
        day_str == DayStr(now[7])
        Synced(synced) ==
            IF synced.ret = "True" THEN fetch_manifest_and_schedule(synced, srv) ELSE synced
        Ring(g1) ==
            IF Raised(g1) THEN g1
            ELSE IF day_str \in DOMAIN g1.schedule /\ g1.schedule[day_str] # <<>>
            THEN RingMatching(g1, day_str, 1, current_time_str)
            ELSE g1
    IN  Ring(IF current_time_str = FmtHHMM(7, 30) THEN Synced(sync_time(g, ntp)) ELSE g)

\* minute_edge without the test of holiday_mode at line 816.
minute_edge_IgnoresHoliday(g, srv, ntp) ==
    IF ~g.wifi_connection_failed
    THEN LET now == get_local_time(g)
         IN  IF now[5] # g.last_check_minute
             THEN TriggerBells([g EXCEPT !.last_check_minute = now[5],
                                         !.evalLog = Append(g.evalLog, ClockMinute(now))],
                               now, srv, ntp)
             ELSE g
    ELSE g

\* Lines 811-833 of one pass of the loop.
minute_edge(g, srv, ntp) ==
    LET Trigger(g2, now) ==
            IF ~g2.holiday_mode THEN TriggerBells(g2, now, srv, ntp) ELSE g2
        Shown(g1, now) ==
            Trigger(IF g1.display_on THEN update_display(g1, g1.last_status_line) ELSE g1,
                    now)
        Edge(now) ==
            IF now[5] # g.last_check_minute
            THEN Shown([g EXCEPT !.last_check_minute = now[5],
                                 !.evalLog = Append(g.evalLog, ClockMinute(now))],
                       now)
            ELSE g
    IN  IF ~g.wifi_connection_failed THEN Edge(get_local_time(g))
        ELSE IF g.display_on THEN update_display(g, "WiFi Connect Fail") ELSE g

\* Lines 796-809: display power and the five-minute WiFi check (the pixel
\* shift and the signal strength reading change nothing modelled here).
housekeeping(g, wlan) ==
    LET g1 == manage_display_power(g)
        current_ticks == g1.rtc
    IN  IF ~g1.wifi_connection_failed /\ current_ticks - g1.last_wifi_check > 300
        THEN [(IF ~wlan.connected THEN connect_wifi(g1, wlan) ELSE g1)
                EXCEPT !.last_wifi_check = current_ticks]
        ELSE g1

-----------------------------------------------------------------------------
(* Main execution: the boot sequence (main.py:756-783) *)

boot(g, wlan, srv, ntp) ==
    LET Loaded == load_active_schedule_name(load_schedule_from_cache(load_holiday_status(g)))
        Idle(g3) == IF Raised(g3) THEN g3 ELSE update_display(g3, "Idle")
        Synced(synced) ==
            Idle(IF synced.ret = "True" THEN fetch_manifest_and_schedule(synced, srv)
                 ELSE synced)
        Connected(g4) ==
            IF g4.ret = "True" THEN Synced(sync_time(g4, ntp))
            ELSE update_display(g4, "WiFi Connect Fail")
        Serving(g5) ==
            IF Raised(g5) THEN g5 ELSE
            [g5 EXCEPT !.sock = ~g5.wifi_connection_failed,
                       !.last_check_minute = -1,
                       !.last_wifi_check = g5.rtc]
    IN  Serving(Connected(connect_wifi(Loaded, wlan)))

-----------------------------------------------------------------------------
(* Power-on values of the globals (main.py:23-45, 783) *)

PowerOn(fs, clock) ==
    [schedule |-> <<>>, next_bell_event |-> <<>>, schedule_manifest |-> <<>>,
     display_on |-> TRUE, last_activity_time |-> clock, holiday_mode |-> FALSE,
     last_status_line |-> "Booting...", wifi_connection_failed |-> FALSE,
     active_schedule_name |-> "Default", current_session_id |-> None,
     relay_status |-> [r \in {Str(1), Str(2)} |-> "OFF"],
     touch_lock |-> FALSE, long_press_triggered |-> FALSE,
     touch_start_time |-> 0, held_button |-> "None",
     last_check_minute |-> -1, last_wifi_check |-> clock, sock |-> FALSE,
     pins |-> [p \in {1, 2} |-> 0], files |-> fs,
     rtc |-> clock, ticks_ms |-> 0, pinLog |-> <<>>, httpLog |-> <<>>,
     response |-> "none", ret |-> "none", evalLog |-> <<>>, issued |-> <<>>,
     setup_mode |-> FALSE, passes |-> 0, request |-> NoRequest,
     touch_pos |-> None, wdt_fed |-> 0, wdt_gap |-> 0,
     display |-> TRUE, ntpLog |-> <<>>, local_time |-> None, touch_before |-> <<>>]

-----------------------------------------------------------------------------
(* The documents and the clock readings the model draws its inputs from *)

\* At most MaxEvents events in one weekday's list of a schedule document.
MaxEvents == 2

T0800 == FmtHHMM(8, 0)
T0830 == FmtHHMM(8, 30)
T1515 == FmtHHMM(15, 15)

\* Events as the schedule document gives them (spec.md section 6); relay and
\* belllength are optional.
EventPool ==
    { [time |-> T0830, bellname |-> "Period1", relay |-> 1, belllength |-> 2],
      [time |-> T0800, bellname |-> "Start", relay |-> 2],
      [time |-> T1515, bellname |-> "End"] }

RECURSIVE SeqsUpTo(_, _)
SeqsUpTo(S, n) ==
    IF n = 0 THEN {<<>>}
    ELSE LET shorter == SeqsUpTo(S, n - 1)
         IN  shorter \cup {Append(q, x) : q \in {r \in shorter : Len(r) = n - 1}, x \in S}

DayLists == SeqsUpTo(EventPool, MaxEvents)

\* Schedule documents with the lists of at most two weekdays.
BellDayKeys == {"0", "1", "6"}

BellSchedules ==
    {<<>>}
    \cup {DictSet(<<>>, d, l) : d \in BellDayKeys, l \in DayLists}
    \cup {DictSet(DictSet(<<>>, d1, l1), d2, l2) :
            d1 \in {"0"}, d2 \in {"1", "6"}, l1 \in DayLists, l2 \in DayLists}

\* 2026-11-02 00:00:00 UTC, a Monday outside summer time, and
\* 2026-06-01 00:00:00 UTC, a Monday in summer time, on the device clock.
WinterMonday == mktime(<<2026, 11, 2, 0, 0, 0, 0, 0>>)
SummerMonday == mktime(<<2026, 6, 1, 0, 0, 0, 0, 0>>)

BellClocks ==
    {WinterMonday + d * 86400 + h * 3600 + m * 60 :
        d \in 0..6, h \in {8}, m \in {0, 29, 30}}
    \cup {SummerMonday + 7 * 3600 + 10 * 60, SummerMonday + 6 * 86400 + 14 * 3600 + 15 * 60}

-----------------------------------------------------------------------------
(* Documents the servers hold, and what the network does *)

\* The dict of a manifest's "schedules" whose keys iterate in the order of
\* the document, and one whose two keys iterate in the opposite order.
InDocOrder(pairs) == [pairs |-> pairs, iter |-> [i \in 1..Len(pairs) |-> pairs[i][1]]]
Swapped(pairs) == [pairs |-> pairs, iter |-> <<pairs[2][1], pairs[1][1]>>]

ManifestA ==
    [base_url |-> "https://x/",
     schedules |-> InDocOrder(<< <<"Normal Day", "n.json">>, <<"Half Day", "h.json">> >>)]

ManifestB ==
    [base_url |-> "https://x/",
     schedules |-> InDocOrder(<< <<"Half Day", "h.json">>, <<"Exam Day", "e.json">> >>)]

\* Manifests that lack a required key.
ManifestNoBase == [schedules |-> InDocOrder(<< <<"Normal Day", "n.json">> >>)]
ManifestNoSchedules == [base_url |-> "https://x/"]

\* A Monday with two bells at 08:00 on the two relays, a bell without a relay
\* and a later bell; a Tuesday.
ScheduleNormal ==
    DictSet(DictSet(<<>>, "0",
        << [time |-> T0800, bellname |-> "Start", relay |-> 1, belllength |-> 2],
           [time |-> FmtHHMM(8, 1), bellname |-> "Note"],
           [time |-> T0800, bellname |-> "Start2", relay |-> 2],
           [time |-> FmtHHMM(8, 1), bellname |-> "Period1", relay |-> 1] >>),
        "1", << [time |-> T0830, bellname |-> "Tue1", relay |-> 2] >>)

ScheduleHalf ==
    DictSet(<<>>, "0",
        << [time |-> FmtHHMM(7, 30), bellname |-> "Early", relay |-> 2],
           [time |-> T0800, bellname |-> "Half", relay |-> 1] >>)

\* What the servers answer: URL -> parsed document; a URL that is missing
\* fails (connection, TLS, timeout, or a body that is not JSON).
Server(manifest, normal, half) ==
    [docs |-> [u \in {SCHEDULE_MANIFEST_URL, "https://x/n.json", "https://x/h.json"} |->
                  IF u = SCHEDULE_MANIFEST_URL THEN manifest
                  ELSE IF u = "https://x/n.json" THEN normal ELSE half],
     wait |-> 0]

ServerDown == [docs |-> <<>>, wait |-> 0]
ServerUp == Server(ManifestA, ScheduleNormal, ScheduleHalf)

NtpOk == [fails |-> 0, step |-> 0]
NtpDown == [fails |-> 3, step |-> 0]
\* The device clock ran five seconds fast: settime() puts it back.
NtpBack == [fails |-> 0, step |-> -5]

WlanUp == [connected |-> TRUE, polls |-> 0, joined |-> TRUE]
WlanJoins == [connected |-> FALSE, polls |-> 2, joined |-> TRUE]
WlanDown == [connected |-> FALSE, polls |-> 15, joined |-> FALSE]

\* What the flash holds at power-on: nothing, or what an earlier run saved.
FilesNone == <<>>
FilesSaved ==
    DictSet(DictSet(DictSet(<<>>, HOLIDAY_STATUS_FILE, "1"),
                    SCHEDULE_CACHE_FILE, ScheduleNormal),
            ACTIVE_SCHEDULE_FILE, "Half Day")

-----------------------------------------------------------------------------
(* The steps of the main loop (main.py:785-834) *)

\* The run is followed for MaxPasses passes of the main loop.
MaxPasses == 4

\* Where the program goes on after a step that left the globals as g: an
\* exception that nothing catches ends main.py.
After(g, next) ==
    IF Raised(g) THEN "crashed" ELSE IF g.setup_mode THEN "setup" ELSE next

\* A step leaves the globals as g and goes on at next.
Leave(g, next) == Commit(g) /\ pc' = After(g, next)

\* Line 788-793, no connection pending: s.accept() raises OSError.
AcceptNone ==
    /\ pc = "accept"
    /\ Commit(feed(Fresh(Globals)))
    /\ pc' = "touch"

\* AcceptRequest without the test of wifi_connection_failed at line 788.
AcceptRequest_WhenFailed(Reqs, Srvs, Ntps) ==
    /\ pc = "accept"
    /\ sock
    /\ \E req \in Reqs, srv \in Srvs, ntp \in Ntps :
          Leave(handle_web_request(feed(Fresh(Globals)), req, srv, ntp), "touch")

\* Lines 788-791: a connection is pending and its request is handled.
AcceptRequest(Reqs, Srvs, Ntps) ==
    /\ pc = "accept"
    /\ ~wifi_connection_failed /\ sock
    /\ \E req \in Reqs, srv \in Srvs, ntp \in Ntps :
          Leave(handle_web_request(feed(Fresh(Globals)), req, srv, ntp), "touch")

\* Line 795.
TouchStep(Samples, Srvs, Ntps) ==
    /\ pc = "touch"
    /\ \E pos \in Samples, srv \in Srvs, ntp \in Ntps :
          Leave(handle_touch(Fresh(Globals), pos, srv, ntp), "house")

\* Lines 796-809.
HouseStep(Wlans) ==
    /\ pc = "house"
    /\ \E wlan \in Wlans :
          Leave(housekeeping(Fresh(Globals), wlan), "edge")

\* Lines 811-833.
EdgeStep(Srvs, Ntps) ==
    /\ pc = "edge"
    /\ \E srv \in Srvs, ntp \in Ntps :
          Leave(minute_edge(Fresh(Globals), srv, ntp), "sleep")

\* Milliseconds from the uptime ms to the next full second, and to the moment
\* the clock t shows the next minute.
ToNextSecond(ms) == 1000 - (ms % 1000)
ToNextMinute(t, ms) == (59 - (t % 60)) * 1000 + ToNextSecond(ms)

\* Line 834, utime.sleep(0.1).
SleepStep ==
    /\ pc = "sleep"
    /\ passes < MaxPasses
    /\ Commit([Elapse(Fresh(Globals), 100) EXCEPT !.passes = passes + 1])
    /\ pc' = "accept"

\* The sleep of line 834 followed by a run of idle passes of the loop, until
\* the clock shows the next second (whole = FALSE) or the next minute: passes
\* that accept no connection and sample no touch while no button is held,
\* the display timeout and the WiFi check are not due and the minute has not
\* changed leave every global as it is, but for the repaint of lines 831-833.
IdleStep(whole) ==
    LET ms == IF whole THEN ToNextMinute(rtc, ticks_ms) ELSE ToNextSecond(ticks_ms)
        g == [Elapse(Fresh(Globals), ms) EXCEPT
                 !.passes = passes + 1,
                 \* every idle pass begins with a feed, the first of them 100 ms
                 \* from now
                 !.wdt_fed = IF ms > 100 THEN ticks_ms + ms - 100 ELSE wdt_fed,
                 !.wdt_gap = IF ms > 100 THEN ticks_ms + 100 - wdt_fed ELSE 0,
                 \* without WiFi every pass repaints the display that is on
                 \* (lines 831-833)
                 !.last_activity_time =
                     IF ms > 100 /\ wifi_connection_failed /\ display_on /\ display
                     THEN Elapse(Globals, ms - 100).rtc ELSE last_activity_time]
    IN  /\ pc = "sleep"
        /\ passes < MaxPasses
        /\ ~touch_lock /\ held_button = "None"
        /\ ~display_on \/ g.rtc - last_activity_time <= SCREEN_OFF_TIMEOUT
        /\ wifi_connection_failed \/ g.rtc - last_wifi_check <= 300
        /\ Commit(g)
        /\ pc' = "accept"

-----------------------------------------------------------------------------
(* Spec: the main loop after boot, driven through the web API *)

ApiRequest(path) ==
    [method |-> "GET", path |-> path, headers |-> [q \in {"x-api-key"} |-> API_KEY],
     body |-> ""]

MainRequests == {ApiRequest(p) : p \in {"/holidayon", "/holidayoff", "/force-update"}}

MainNtps == {NtpOk, NtpBack}

\* The boots the runs begin with, on Monday 2026-11-02: a first boot at
\* 08:00:00, a boot from the saved files with the servers down, a boot at
\* 07:29:59 that could not set the clock, and a boot without WiFi.
MainBoots ==
    { boot(PowerOn(FilesNone, WinterMonday + 8 * 3600), WlanUp, ServerUp, NtpOk),
      boot(PowerOn(FilesSaved, WinterMonday + 8 * 3600), WlanJoins, ServerDown, NtpOk),
      boot(PowerOn(FilesSaved, WinterMonday + 7 * 3600 + 29 * 60 + 59), WlanUp, ServerUp, NtpDown),
      boot(PowerOn(FilesNone, WinterMonday + 8 * 3600), WlanDown, ServerUp, NtpOk) }

Init ==
    /\ \E g \in MainBoots : Start(g)
    /\ pc = "accept"

Next ==
    \/ AcceptNone
    \/ AcceptRequest(MainRequests, {ServerUp}, MainNtps)
    \/ TouchStep({None}, {ServerUp}, {NtpOk})
    \/ HouseStep({WlanUp})
    \/ EdgeStep({ServerUp}, MainNtps)
    \/ SleepStep
    \/ IdleStep(TRUE)

Spec == Init /\ [][Next]_vars

-----------------------------------------------------------------------------
(* SpecBell: find_next_bell applied to every schedule and clock reading *)

InitBell ==
    \E s \in BellSchedules, t \in BellClocks :
        /\ Start([PowerOn(<<>>, t) EXCEPT !.schedule = s])
        /\ pc = "bell"

CallFindNextBell ==
    /\ pc \in {"bell", "bell_done"}
    /\ Commit(find_next_bell(Globals))
    /\ pc' = "bell_done"

NextBell == CallFindNextBell

SpecBell == InitBell /\ [][NextBell]_vars

-----------------------------------------------------------------------------
(* SpecTime: get_local_time applied to clock readings around the changes of
   the clock *)

\* The years the clock readings are taken from end with LastYear.
LastYear == 2030
TimeYears == 2024..LastYear

\* The device clock (UTC): the first and the last second of the hours 00, 01,
\* 02 and 23 of the last eight days of March and October, and noon on the
\* 15th of every month.
TimeInstants ==
    {mktime(<<y, m, d, h, ms[1], ms[2], 0, 0>>) :
        y \in TimeYears, m \in {3, 10}, d \in 24..31, h \in {0, 1, 2, 23},
        ms \in {<<0, 0>>, <<59, 59>>}}
    \cup {mktime(<<y, m, 15, 12, 0, 0, 0, 0>>) : y \in TimeYears, m \in 1..12}

InitTime ==
    \E t \in TimeInstants :
        /\ Start(PowerOn(<<>>, t))
        /\ pc = "time"

CallGetLocalTime ==
    /\ pc = "time"
    /\ Commit([Globals EXCEPT !.local_time = get_local_time(Globals)])
    /\ pc' = "time_done"

NextTime == CallGetLocalTime

SpecTime == InitTime /\ [][NextTime]_vars

-----------------------------------------------------------------------------
(* Properties of find_next_bell, under SpecBell *)

\* The events of the schedule sched that qualify when the local time is now,
\* as <<day offset, position in that weekday's list>>: any event of the six
\* days after today, and of today those later than the current minute.
QualifyingEvents(sched, now) ==
    {ki \in (0..6) \X (1..(MaxEvents + 2)) :
        LET day_str == DayStr((now[7] + ki[1]) % 7)
        IN  /\ day_str \in DOMAIN sched
            /\ ki[2] <= Len(sched[day_str])
            /\ ki[1] > 0 \/ EventMins(sched[day_str][ki[2]]) > now[4] * 60 + now[5]}

\* ki comes no later than ki2 in the scan: an earlier day, or the same day
\* and an earlier time, or the same day and time and not later in the list.
ScannedNoLater(sched, now, ki, ki2) ==
    LET m  == EventMins(sched[DayStr((now[7] + ki[1]) % 7)][ki[2]])
        m2 == EventMins(sched[DayStr((now[7] + ki2[1]) % 7)][ki2[2]])
    IN  \/ ki[1] < ki2[1]
        \/ ki[1] = ki2[1] /\ m < m2
        \/ ki[1] = ki2[1] /\ m = m2 /\ ki[2] <= ki2[2]

\* What C1 says of a step that calls find_next_bell.
FirstQualifyingStep ==
    pc \in {"bell", "bell_done"} =>
        LET now == LocalTimeAt(rtc)
            Q == QualifyingEvents(schedule, now)
        IN  IF Q = {} THEN next_bell_event' = <<>>
            ELSE \E ki \in Q :
                    /\ \A ki2 \in Q : ScannedNoLater(schedule, now, ki, ki2)
                    /\ LET day_idx == (now[7] + ki[1]) % 7
                       IN  next_bell_event' =
                              DictSet(schedule[DayStr(day_idx)][ki[2]], "day_name",
                                      DAYS_OF_WEEK[day_idx + 1])

\* C1: find_next_bell sets NextBellEvent to the first qualifying event of the
\* scan over day offsets 0..6 and, within a day, ascending times, where an
\* event of today qualifies only if it is later than the current minute; the
\* result carries the weekday name of its day, and it is empty exactly when
\* no event qualifies.
C1_NextBellIsFirstQualifying == [][FirstQualifyingStep]_vars

\* C1 witness: a call has returned an event of a later weekday although
\* today's list holds an event at exactly the current minute.
C1_Witness ==
    LET now == LocalTimeAt(rtc)
        today == DayStr(now[7])
    IN  /\ pc = "bell_done"
        /\ next_bell_event # <<>>
        /\ next_bell_event["day_name"] # DAYS_OF_WEEK[now[7] + 1]
        /\ today \in DOMAIN schedule
        /\ \E i \in 1..Len(schedule[today]) :
              EventMins(schedule[today][i]) = now[4] * 60 + now[5]

\* C13: calling find_next_bell again with the schedule and the local time
\* as the first call left them yields the same NextBellEvent as the first
\* call.
C13_RecomputeIsIdempotent ==
    pc = "bell_done" => find_next_bell(Globals).next_bell_event = next_bell_event

\* A call has stored an event of today, written its weekday name into the
\* schedule, and a second call changes nothing.
C13_Witness ==
    /\ pc = "bell_done"
    /\ next_bell_event # <<>>
    /\ next_bell_event["day_name"] = DAYS_OF_WEEK[LocalTimeAt(rtc)[7] + 1]
    /\ \E i \in 1..Len(schedule[DayStr(LocalTimeAt(rtc)[7])]) :
          schedule[DayStr(LocalTimeAt(rtc)[7])][i] = next_bell_event
    /\ find_next_bell(Globals) = Globals

-----------------------------------------------------------------------------
(* SpecFetch: fetch_manifest_and_schedule called again and again *)

ScheduleExam ==
    DictSet(<<>>, "0", << [time |-> T1515, bellname |-> "Exam", relay |-> 1] >>)

ManifestC ==
    [base_url |-> "https://x/",
     schedules |-> InDocOrder(<< <<"Exam Day", "e.json">>, <<"Normal Day", "n.json">> >>)]

\* A manifest whose second key lands in an earlier slot than its first.
ManifestD ==
    [base_url |-> "https://x/",
     schedules |-> Swapped(<< <<"Exam Day", "e.json">>, <<"Half Day", "h.json">> >>)]

\* Documents that are JSON arrays of strings, not objects.
ManifestArray == List(<<"schedules", "base_url">>)
ManifestArrayNoBase == List(<<"schedules">>)

\* What the manifest URL answers: a manifest, a document without a required
\* key, the empty object, an array, or nothing that parses (None).
FetchManifests ==
    {ManifestA, ManifestB, ManifestC, ManifestD, ManifestNoBase, ManifestNoSchedules,
     ManifestArray, ManifestArrayNoBase, <<>>, NoneJSON}

ScheduleUrls == {"https://x/n.json", "https://x/h.json", "https://x/e.json"}

ScheduleOf(u) ==
    IF u = "https://x/n.json" THEN ScheduleNormal
    ELSE IF u = "https://x/h.json" THEN ScheduleHalf ELSE ScheduleExam

\* What the schedule URLs answer: their documents, the empty object, or
\* nothing that parses.
FetchAnswers ==
    { [u \in ScheduleUrls |-> ScheduleOf(u)],
      [u \in ScheduleUrls |-> <<>>],
      [u \in ScheduleUrls |-> NoneJSON] }

FetchServers ==
    { [docs |-> [u \in ScheduleUrls \cup {SCHEDULE_MANIFEST_URL} |->
                    IF u = SCHEDULE_MANIFEST_URL THEN m ELSE a[u]],
       wait |-> 0] : m \in FetchManifests, a \in FetchAnswers }

\* The device has loaded its files at 08:00:00 on Monday 2026-11-02 and its
\* WiFi is up; the first call is the one of the boot sequence.
InitFetch ==
    /\ \E fs \in {FilesNone, FilesSaved} :
          Start(load_active_schedule_name(load_schedule_from_cache(
                    load_holiday_status(PowerOn(fs, WinterMonday + 8 * 3600)))))
    /\ pc = "call"

CallFetch ==
    /\ pc = "call"
    /\ \E srv \in FetchServers :
          Leave(fetch_manifest_and_schedule(Fresh(Globals), srv), "call")

NextFetch == CallFetch

SpecFetch == InitFetch /\ [][NextFetch]_vars

-----------------------------------------------------------------------------
(* SpecAuth: the main loop serving logins and requests with credentials *)

WrongKey == "not_the_api_key"

\* The cookie headers a client can send in the state g: none, the cookie of
\* any login so far, and the text "session=None".
AuthCookies(g) == {<<>>} \cup {SessionCookie(g.issued[i]) : i \in 1..Len(g.issued)}
                         \cup {SessionCookie(None)}

AuthKeys == {"", API_KEY, WrongKey}

\* The headers of a request with the cookie c and the key k (absent when
\* empty).
Headers(c, k) ==
    [q \in (IF c = <<>> THEN {} ELSE {"cookie"}) \cup (IF k = "" THEN {} ELSE {"x-api-key"})
        |-> IF q = "cookie" THEN c ELSE k]

ProtectedPaths == {"/", "/holidayon"}

AuthRequests(g) ==
    { [method |-> "GET", path |-> p, headers |-> Headers(c, k), body |-> ""] :
          p \in ProtectedPaths \cup api_readonly_paths,
          c \in AuthCookies(g), k \in AuthKeys }
    \cup { [method |-> "GET", path |-> p, headers |-> <<>>, body |-> ""] :
              p \in {"/login", "/logout"} }
    \cup { [method |-> "POST", path |-> "/login", headers |-> <<>>, body |-> b] :
              b \in {WEB_INTERFACE_PASSWORD, "guess"} }

InitAuth ==
    /\ Start(boot(PowerOn(FilesNone, WinterMonday + 8 * 3600), WlanUp, ServerUp, NtpOk))
    /\ pc = "accept"

NextAuth ==
    \/ AcceptNone
    \/ AcceptRequest(AuthRequests(Globals), {ServerUp}, {NtpOk})
    \/ TouchStep({None}, {ServerUp}, {NtpOk})
    \/ HouseStep({WlanUp})
    \/ EdgeStep({ServerUp}, {NtpOk})
    \/ SleepStep
    \/ IdleStep(FALSE)

SpecAuth == InitAuth /\ [][NextAuth]_vars

-----------------------------------------------------------------------------
(* SpecTouch: the main loop with the touch screen in use *)

\* Points of the screen: on the Holiday button, on the Sync button, on the
\* Setup WiFi button, and on no button.
OnHoliday == <<10, 10>>
OnSync == <<200, 20>>
OnSetup == <<120, 120>>
OnNothing == <<120, 200>>

TouchSamples == {None, OnHoliday, OnSync, OnSetup, OnNothing}

\* The passes of the loop that utime.sleep(0.1) lets into one second.
PassesPerSecond == 10

\* One pass of the loop (lines 786-834) in which no connection is pending
\* and touch.get_touch returns pos.
Pass(g, pos, wlan, srv, ntp) ==
    LET Slept(g3) == IF Raised(g3) THEN g3 ELSE Elapse(g3, 100)
        Housed(g2) == IF Raised(g2) THEN g2 ELSE Slept(minute_edge(g2, srv, ntp))
        Touched(g1) == IF Raised(g1) THEN g1 ELSE Housed(housekeeping(g1, wlan))
    IN  Touched(handle_touch(feed(g), pos, srv, ntp))

RECURSIVE Passes(_, _, _, _, _, _)
Passes(g, n, pos, wlan, srv, ntp) ==
    IF n = 0 \/ Raised(g) THEN g
    ELSE Passes(Pass(g, pos, wlan, srv, ntp), n - 1, pos, wlan, srv, ntp)

\* A second of holding a touch: the sleep of line 834 and the passes that
\* follow it within one second, in each of which the touch controller
\* returns the sample it returned last.
HoldStep(Wlans, Srvs, Ntps) ==
    /\ pc = "sleep"
    /\ passes < MaxPasses
    /\ touch_pos # None
    /\ \E wlan \in Wlans, srv \in Srvs, ntp \in Ntps :
          Leave(Passes([Elapse(Fresh(Globals), 100) EXCEPT !.passes = passes + 1],
                       PassesPerSecond - 1, touch_pos, wlan, srv, ntp),
                "accept")

\* The device has booted at 08:00:00 on Monday 2026-11-02, with WiFi or
\* without.
InitTouch ==
    /\ \E wlan \in {WlanUp, WlanDown} :
          Start(boot(PowerOn(FilesNone, WinterMonday + 8 * 3600), wlan, ServerUp, NtpOk))
    /\ pc = "accept"

NextTouch ==
    \/ AcceptNone
    \/ TouchStep(TouchSamples, {ServerUp}, {NtpOk, NtpDown})
    \/ HouseStep({WlanUp})
    \/ EdgeStep({ServerUp}, {NtpOk})
    \/ SleepStep
    \/ HoldStep({WlanUp}, {ServerUp}, {NtpOk})

SpecTouch == InitTouch /\ [][NextTouch]_vars

-----------------------------------------------------------------------------
(* SpecWdt: the main loop with long bells and slow servers *)

\* A Monday whose 08:00 bell rings for nine seconds.
ScheduleLong ==
    DictSet(<<>>, "0",
        << [time |-> T0800, bellname |-> "Assembly", relay |-> 1, belllength |-> 9],
           [time |-> T0830, bellname |-> "Period1", relay |-> 2] >>)

ServerLong == Server(ManifestA, ScheduleLong, ScheduleHalf)

\* A Monday whose 08:00 bells name relay 3 and relay 1.
ScheduleThree ==
    DictSet(<<>>, "0",
        << [time |-> T0800, bellname |-> "Annexe", relay |-> 3],
           [time |-> T0800, bellname |-> "Start", relay |-> 1] >>)

ServerThree == Server(ManifestA, ScheduleThree, ScheduleHalf)

\* Servers that answer each request after nine seconds, within the ten
\* seconds of s.settimeout(10) (line 356).
ServerSlow == [docs |-> ServerUp.docs, wait |-> 9000]

WdtRequests == {ApiRequest(p) : p \in {"/test-relay1", "/test-relay2", "/force-update"}}

\* The device boots at 07:59:58 on Monday 2026-11-02 and fetches the
\* schedule with the long bell, the usual one, or the one that names relay 3.
InitWdt ==
    /\ \E srv \in {ServerLong, ServerUp, ServerThree} :
          Start(boot(PowerOn(FilesNone, WinterMonday + 7 * 3600 + 59 * 60 + 58),
                     WlanJoins, srv, NtpOk))
    /\ pc = "accept"

NextWdt ==
    \/ AcceptNone
    \/ AcceptRequest(WdtRequests, {ServerUp, ServerSlow}, {NtpOk, NtpDown})
    \/ TouchStep({None}, {ServerUp}, {NtpOk})
    \/ HouseStep({WlanUp})
    \/ EdgeStep({ServerUp}, {NtpOk})
    \/ SleepStep
    \/ IdleStep(TRUE)

SpecWdt == InitWdt /\ [][NextWdt]_vars

-----------------------------------------------------------------------------
(* SpecRetry: the main loop with the network failing in every way *)

\* The device clock was 400 seconds behind: settime() puts it forward.
NtpAhead == [fails |-> 0, step |-> 400]

\* The manifest URL answers a JSON array.
ServerArray == Server(ManifestArray, ScheduleNormal, ScheduleHalf)

RetryServers == {ServerUp, ServerArray}

\* The device boots at 07:29:58 on Monday 2026-11-02 with a time server that
\* answers or not.
InitRetry ==
    /\ \E ntp \in {NtpOk, NtpDown} :
          Start(boot(PowerOn(FilesNone, WinterMonday + 7 * 3600 + 29 * 60 + 58),
                     WlanJoins, ServerUp, ntp))
    /\ pc = "accept"

NextRetry ==
    \/ AcceptNone
    \/ AcceptRequest({ApiRequest("/force-update")}, {ServerUp}, {NtpAhead})
    \/ TouchStep({None, OnSync}, RetryServers, {NtpDown})
    \/ HouseStep({WlanUp, WlanDown})
    \/ EdgeStep(RetryServers, {NtpOk})
    \/ SleepStep
    \/ IdleStep(TRUE)

SpecRetry == InitRetry /\ [][NextRetry]_vars

-----------------------------------------------------------------------------
(* SpecWake: the main loop with the display switched off *)

\* init_display (main.py:177-194) with display.fill raising after the touch
\* controller and the backlight were set up: display is None, and
\* update_display no longer counts as activity.
PowerOnNoDisplay(fs, clock) == [PowerOn(fs, clock) EXCEPT !.display = FALSE]

\* The device boots at 08:00:00 on Monday 2026-11-02, with a display object
\* or without.
InitWake ==
    /\ \E g \in {PowerOn(FilesNone, WinterMonday + 8 * 3600),
                  PowerOnNoDisplay(FilesNone, WinterMonday + 8 * 3600)} :
          Start(boot(g, WlanUp, ServerUp, NtpOk))
    /\ pc = "accept"

NextWake ==
    \/ AcceptNone
    \/ AcceptRequest({ApiRequest("/force-update")}, {ServerUp}, {NtpAhead})
    \/ TouchStep({None, OnHoliday, OnSync, OnSetup}, {ServerUp}, {NtpOk})
    \/ HouseStep({WlanUp, WlanDown})
    \/ EdgeStep({ServerUp}, {NtpOk})
    \/ SleepStep
    \/ HoldStep({WlanUp}, {ServerUp}, {NtpOk})

SpecWake == InitWake /\ [][NextWake]_vars

-----------------------------------------------------------------------------
(* SpecSched: the main loop with the schedule and holiday actions, reboots *)

ServerB == Server(ManifestB, ScheduleNormal, ScheduleHalf)

\* POST /set_schedule with the decoded schedule_name field name.
PostSchedule(name) ==
    [method |-> "POST", path |-> "/set_schedule",
     headers |-> [q \in {"x-api-key"} |-> API_KEY], body |-> name]

SchedRequests ==
    {PostSchedule(name) : name \in {"Exam Day", "Half Day "}}
    \cup {ApiRequest(path) : path \in {"/set_schedule_half", "/holidayon"}}

SchedServers == {ServerB, ServerDown}

\* A reset of the device between two passes of the loop: the globals get
\* their power-on values, the flash and the clock are kept, and the boot
\* sequence runs.
Reboot(Wlans, Srvs, Ntps) ==
    /\ pc = "accept"
    /\ passes > 0
    /\ \E wlan \in Wlans, srv \in Srvs, ntp \in Ntps :
          Leave([boot(PowerOn(files, rtc), wlan, srv, ntp) EXCEPT !.passes = passes],
                "accept")

InitSched ==
    /\ \E fs \in {FilesNone, FilesSaved} :
          Start(boot(PowerOn(fs, WinterMonday + 8 * 3600), WlanUp,
                     IF fs = FilesNone THEN ServerUp ELSE ServerDown, NtpOk))
    /\ pc = "accept"

NextSched ==
    \/ AcceptNone
    \/ AcceptRequest(SchedRequests, SchedServers, {NtpOk})
    \/ TouchStep({None, OnHoliday}, {ServerUp}, {NtpOk})
    \/ HouseStep({WlanUp})
    \/ EdgeStep({ServerUp}, {NtpOk})
    \/ SleepStep
    \/ HoldStep({WlanUp}, {ServerUp}, {NtpOk})
    \/ Reboot({WlanUp}, {ServerDown}, {NtpOk})

SpecSched == InitSched /\ [][NextSched]_vars

-----------------------------------------------------------------------------
(* The minute-edge evaluation (main.py:811-830) under Spec *)

\* A step of the loop that ran the trigger evaluation.
Evaluated == pc = "edge" /\ Len(evalLog') = Len(evalLog) + 1

\* C2: across ticks, web requests and time syncs the minute-edge trigger
\* evaluation runs at most once per distinct clock minute: no clock minute
\* (date, hour and minute of the local clock) is evaluated a second time, so
\* no schedule event is actuated twice for the same minute.
C2_EvaluatedOncePerMinute ==
    \A i, j \in 1..Len(evalLog) : i # j => evalLog[i] # evalLog[j]

\* The events of today's list that the evaluation at local time now has to
\* actuate: those whose time is the current HH:MM and that name a relay, as
\* positions of the list in document order.
RECURSIVE DueFrom(_, _, _)
DueFrom(events, i, hhmm) ==
    IF i > Len(events) THEN <<>>
    ELSE (IF DictGet(events[i], "time", None) = hhmm /\ DictGet(events[i], "relay", 0) # 0
          THEN <<i>> ELSE <<>>) \o DueFrom(events, i + 1, hhmm)

DueNow(sched, now) ==
    IF DayStr(now[7]) \in DOMAIN sched
    THEN DueFrom(sched[DayStr(now[7])], 1, FmtHHMM(now[4], now[5]))
    ELSE <<>>

\* The pin writes of one evaluation are, for the due events in order, the
\* event's relay switched on and then off again its full duration later, the
\* next one switched on no earlier than that.
ActuatedInOrder(events, due, log) ==
    /\ Len(log) = 2 * Len(due)
    /\ \A k \in 1..Len(due) :
          LET e == events[due[k]]
              target == IF e.relay = 1 THEN 1 ELSE 2
              on == log[2 * k - 1]
              off == log[2 * k]
          IN  /\ on.pin = target /\ on.level = 1
              /\ off.pin = target /\ off.level = 0
              /\ off.at = on.at + DictGet(e, "belllength", RELAY_ON_DURATION) * 1000
              /\ k > 1 => on.at >= log[2 * k - 2].at

AllDueActuatedStep ==
    Evaluated /\ ~holiday_mode =>
        LET now == get_local_time(Globals)
            due == DueNow(schedule', now)
        IN  /\ due # <<>> => ActuatedInOrder(schedule'[DayStr(now[7])], due, pinLog')
            /\ due = <<>> => pinLog' = <<>>

\* C3: when several events of today's schedule have the current HH:MM as
\* their time and each names a relay, one single minute-edge evaluation
\* actuates all of them, in the order of the schedule document, each
\* activation lasting its full duration before the next begins.
C3_AllDueActuatedInOrder == [][AllDueActuatedStep]_vars

\* An evaluation has just actuated two events of the same minute, the first
\* for two seconds on relay 1 and the second on relay 2.
C3_Witness ==
    /\ pc = "sleep"
    /\ Len(pinLog) = 4
    /\ pinLog[1].pin = 1 /\ pinLog[3].pin = 2
    /\ pinLog[2].at = pinLog[1].at + 2000
    /\ pinLog[3].at >= pinLog[2].at

NoBellInHolidayStep == pc = "edge" /\ holiday_mode => pinLog' = <<>> /\ pins' = pins

\* C4: while holiday_mode is true no minute-edge evaluation actuates a relay,
\* whatever the schedule and the clock.
C4_NoBellInHoliday == [][NoBellInHolidayStep]_vars

\* An evaluation has just run at 08:00 on a Monday with bells due at 08:00,
\* in holiday mode, and no pin was written.
C4_Witness ==
    /\ pc = "sleep"
    /\ holiday_mode
    /\ evalLog # <<>>
    /\ evalLog[Len(evalLog)] = ClockMinute(LocalTimeAt(WinterMonday + 8 * 3600))
    /\ DueNow(schedule, LocalTimeAt(WinterMonday + 8 * 3600)) # <<>>
    /\ pinLog = <<>>


-----------------------------------------------------------------------------
(* fetch_manifest_and_schedule (main.py:372-404) under SpecFetch *)

\* The manifest URL answered a document the fetch accepts.
ManifestAccepted(log) ==
    /\ log # <<>>
    /\ log[1].got # NoneJSON /\ log[1].got # <<>>
    /\ {"schedules", "base_url"} \subseteq DOMAIN log[1].got

FailedFetchKeepsStateStep ==
    pc = "call" /\ ret' = "False" =>
        /\ schedule' = schedule
        /\ schedule_manifest' = schedule_manifest
        /\ active_schedule_name' = active_schedule_name
        /\ files' = files

\* C5: if fetch_manifest_and_schedule fails at any step, the in-memory
\* schedule, the manifest, the active schedule name and their persisted
\* copies are what they were before the call, and the call reports failure.
C5_FailedFetchKeepsState == [][FailedFetchKeepsStateStep]_vars

\* C6: when the schedule document downloads and parses but is the empty
\* object, the call reports success and the in-memory schedule and the cache
\* become that empty schedule.
C6_EmptyScheduleIsSuccess ==
    pc = "call" /\ Len(httpLog) = 2 /\ httpLog[2].got = <<>> =>
        /\ ret = "True"
        /\ schedule = <<>>
        /\ SCHEDULE_CACHE_FILE \in DOMAIN files
        /\ files[SCHEDULE_CACHE_FILE] = <<>>

ActiveNameStep ==
    pc = "call" /\ ManifestAccepted(httpLog') =>
        LET names == httpLog'[1].got["schedules"].pairs
        IN  IF \E i \in 1..Len(names) : names[i][1] = active_schedule_name
            THEN active_schedule_name' = active_schedule_name
            ELSE /\ active_schedule_name' = names[1][1]
                 /\ ACTIVE_SCHEDULE_FILE \in DOMAIN files'
                 /\ files'[ACTIVE_SCHEDULE_FILE] = names[1][1]

\* C7: when a manifest is fetched successfully and the active schedule name
\* is not one of its schedule names, the active name becomes the first entry
\* of the manifest, in manifest order, and is persisted; when the active name
\* is a key of the new manifest it is left unchanged.
C7_ActiveNameResetToFirst == [][ActiveNameStep]_vars

-----------------------------------------------------------------------------
(* Authentication in handle_web_request (main.py:530-579) under SpecAuth *)

\* The request of this step carried the cookie of the valid session, the
\* configured key, any key at all.
CookieValid ==
    /\ current_session_id # None
    /\ "cookie" \in DOMAIN request.headers
    /\ request.headers["cookie"] = SessionCookie(current_session_id)

KeyValid == "x-api-key" \in DOMAIN request.headers /\ request.headers["x-api-key"] = API_KEY
KeyProvided == "x-api-key" \in DOMAIN request.headers

\* C8: a request to a protected route is served iff its cookie equals the
\* valid session token or its key header equals the configured key; otherwise
\* it gets 401 when it carried a key header and a redirect to /login when it
\* carried none.  (A protected route leaves the session token as it was, so
\* the token after the request is the one the request was judged against.)
C8_ProtectedRouteGate ==
    request.path \in ProtectedPaths =>
        IF CookieValid \/ KeyValid
        THEN response = (IF request.path = "/" THEN "200:status" ELSE "200:action")
        ELSE IF KeyProvided THEN response = "401" ELSE response = "303:/login"

\* A request with a wrong key and the cookie of the valid session was served.
C8_Witness ==
    /\ request.path = "/holidayon"
    /\ CookieValid /\ KeyProvided /\ ~KeyValid
    /\ response = "200:action" /\ holiday_mode

\* A request for the status page with a given cookie header and no key.
WithCookie(c) == [method |-> "GET", path |-> "/", headers |-> Headers(c, ""), body |-> ""]

\* C9: after two successful logins the cookie issued by the earlier login no
\* longer authenticates a protected request, however close in time the two
\* logins are.
C9_EarlierCookieRejected ==
    \A i \in 1..(Len(issued) - 1) :
        handle_web_request(Globals, WithCookie(SessionCookie(issued[i])), ServerUp, NtpOk).response
            = "303:/login"

\* C10: a request to a read-only query route is answered with data iff its
\* key header equals the configured key; with a missing or wrong key it gets
\* 401, never a redirect, even when it carries the valid session cookie.
C10_ReadOnlyNeedsKey ==
    request.path \in api_readonly_paths =>
        IF KeyValid
        THEN response = (IF request.path = "/holidaystatus"
                         THEN "200:holidaystatus" ELSE "200:schedule_status")
        ELSE response = "401"

\* A read-only query that carried the valid session cookie and no key was
\* refused.
C10_Witness ==
    /\ request.path = "/schedule_status"
    /\ CookieValid /\ ~KeyProvided
    /\ response = "401"

RejectedStep ==
    /\ pc = "accept"
    /\ request'.path \in ProtectedPaths \cup api_readonly_paths
    /\ response' \in {"401", "303:/login"}
    => /\ schedule' = schedule
       /\ schedule_manifest' = schedule_manifest
       /\ holiday_mode' = holiday_mode
       /\ active_schedule_name' = active_schedule_name
       /\ current_session_id' = current_session_id
       /\ relay_status' = relay_status
       /\ pinLog' = <<>> /\ pins' = pins

\* C18: a request to a protected or read-only route that is rejected (401,
\* or redirected to /login) leaves the schedule, the manifest, HolidayMode,
\* the active schedule name, the session token and the relay status as they
\* were, and switches no relay.
C18_RejectedRequestChangesNothing == [][RejectedStep]_vars

\* While a session is open, a request for /holidayon with a wrong key and
\* no cookie was refused, and HolidayMode is off.
C18_Witness ==
    /\ pc = "touch"
    /\ request.path = "/holidayon"
    /\ KeyProvided /\ ~KeyValid /\ "cookie" \notin DOMAIN request.headers
    /\ response = "401"
    /\ current_session_id # None
    /\ ~holiday_mode

-----------------------------------------------------------------------------
(* The stored next bell at the end of a tick, under Spec *)

\* C16: at the end of every tick the stored NextBellEvent is the next-bell
\* resolution of the current schedule at the current local time, whatever
\* HolidayMode is: it never names an event of today whose minute has
\* passed, also after a minute whose event names no relay and after a
\* minute that passed in holiday mode.
C16_NextBellCurrentAtTickEnd ==
    pc = "sleep" => next_bell_event = find_next_bell(Globals).next_bell_event

-----------------------------------------------------------------------------
(* Touch: handle_touch (main.py:704-753) under SpecTouch *)

DebounceStep ==
    touch_pos # None /\ touch_pos' # None =>
        /\ held_button' = held_button
        /\ touch_start_time' = touch_start_time
        /\ touch_lock'

\* C11: during one continuous touch (consecutive ticks that each observe a
\* touch sample) the hit test against the buttons is made at most once, on
\* the first sample: a later sample of the same touch, whatever its
\* coordinates, arms no other button and does not arm the same button again
\* until a tick observes no touch.
C11_HitTestOncePerTouch == [][DebounceStep]_vars

\* A touch that began on the Holiday button has moved onto the Sync button
\* and Holiday is still the button held.
C11_Witness ==
    /\ pc = "house"
    /\ held_button = "holiday"
    /\ touch_pos = OnSync

HolidayHoldStep ==
    /\ pc = "touch" /\ touch_pos' # None /\ held_button' = "holiday" =>
          IF ticks_ms - touch_start_time' >= 2000 /\ ~long_press_triggered
          THEN /\ holiday_mode' = ~holiday_mode
               /\ files'[HOLIDAY_STATUS_FILE] = (IF holiday_mode' THEN "1" ELSE "0")
          ELSE holiday_mode' = holiday_mode
    /\ pc = "touch" /\ touch_pos' = None /\ held_button = "holiday" =>
          holiday_mode' = holiday_mode

\* C12: for a touch that began on the Holiday button, a sample taken when
\* 2000 ms or more have passed since touch-down toggles HolidayMode and
\* persists it, once for that touch however long it is held; a sample taken
\* earlier, and the release, leave HolidayMode as it is.
C12_HolidayLongPress == [][HolidayHoldStep]_vars

-----------------------------------------------------------------------------
(* The watchdog (main.py:312, 335, 756, 786) under SpecWdt *)

\* C14: the watchdog is fed at the top of every tick, and whatever the loop
\* does (a relay hold as long as the schedule's belllength says, several
\* holds of the same minute, the manifest and schedule requests, the NTP
\* retries, the WiFi connect wait) no more than the timeout of 8388 ms
\* passes between one feed and the next.
C14_WatchdogFedInTime ==
    /\ wdt_gap <= WDT_TIMEOUT
    /\ ticks_ms - wdt_fed <= WDT_TIMEOUT

-----------------------------------------------------------------------------
(* The active schedule name and HolidayMode under SpecSched *)

\* C15: once a manifest has been fetched, the active schedule name is a key
\* of the current manifest's schedules in every state, after every web
\* action (a posted name, the quick-set shortcuts), touch action and fetch,
\* whether the fetch succeeds or fails.
C15_ActiveNameInManifest ==
    schedule_manifest # <<>> =>
        HasName(schedule_manifest["schedules"], active_schedule_name)

\* What the boot sequence would load from the flash as it is now (lines
\* 760-762).
LoadedNow == load_active_schedule_name(load_holiday_status(PowerOn(files, rtc)))

\* C17: every change of HolidayMode and of the active schedule name is
\* persisted by the operation that makes it: in every state the values the
\* next boot would load equal the values in memory, and without a holiday
\* file HolidayMode is false.
C17_PersistedEqualsInMemory ==
    /\ LoadedNow.holiday_mode = holiday_mode
    /\ LoadedNow.active_schedule_name = active_schedule_name
    /\ HOLIDAY_STATUS_FILE \notin DOMAIN files => ~holiday_mode

-----------------------------------------------------------------------------
(* The relay outputs (main.py:406-414) under SpecWdt *)

\* The level of the relay pin after the first k pin writes of a step that
\* began with the levels before.
LevelAfter(before, log, k, pin) ==
    IF \E i \in 1..k : log[i].pin = pin
    THEN log[CHOOSE i \in 1..k :
                /\ log[i].pin = pin
                /\ \A j \in (i + 1)..k : log[j].pin # pin].level
    ELSE before[pin]

OneRelayStep ==
    /\ \A k \in 0..Len(pinLog') :
          ~(LevelAfter(pins, pinLog', k, 1) = 1 /\ LevelAfter(pins, pinLog', k, 2) = 1)
    /\ pins'[1] = 0 /\ pins'[2] = 0
    /\ relay_status'[Str(1)] = "OFF" /\ relay_status'[Str(2)] = "OFF"

\* C20: at most one relay channel is energized at any moment: through every
\* sequence of schedule triggers and relay tests from the web, no pin write
\* of any step leaves both channels switched on, and every step of a tick
\* ends with both channels switched off.
C20_AtMostOneRelayOn == [][OneRelayStep]_vars

\* After the bells of 08:00 rang, a web test of relay 2 has switched relay 2
\* on and off again, and both channels are off.
C20_Witness ==
    /\ pc = "touch"
    /\ request.path = "/test-relay2"
    /\ \E i \in 1..Len(evalLog) :
          evalLog[i] = ClockMinute(LocalTimeAt(WinterMonday + 8 * 3600))
    /\ ~holiday_mode
    /\ Len(pinLog) = 2
    /\ pinLog[1].pin = 2 /\ pinLog[1].level = 1
    /\ pinLog[2].pin = 2 /\ pinLog[2].level = 0
    /\ pins[1] = 0 /\ pins[2] = 0

-----------------------------------------------------------------------------
(* The manifest guard of fetch_manifest_and_schedule (main.py:377-382) under
   SpecFetch *)

\* What the manifest URL answered does not parse, or is a document that has
\* no key "schedules" or no key "base_url".
LacksKey(doc) ==
    \/ Falsy(doc)
    \/ IsList(doc)
    \/ "schedules" \notin DOMAIN doc
    \/ "base_url" \notin DOMAIN doc

InvalidManifestStep ==
    pc = "call" /\ httpLog' # <<>> /\ LacksKey(httpLog'[1].got) =>
        /\ schedule_manifest' = schedule_manifest
        /\ active_schedule_name' = active_schedule_name
        /\ schedule' = schedule
        /\ files' = files
        /\ next_bell_event' = next_bell_event
        /\ Len(httpLog') = 1
        /\ ret' = "False"

\* C19: when the manifest that was fetched cannot be parsed or lacks the key
\* "schedules" or the key "base_url", the fetch is rejected before anything
\* is changed: the stored manifest, the active schedule name, the schedule in
\* memory, the files and next_bell_event are what they were, no schedule
\* document is requested, and the call returns False.
C19_InvalidManifestRejected == [][InvalidManifestStep]_vars

-----------------------------------------------------------------------------
(* get_local_time (main.py:162-175) under SpecTime *)

\* 01:00 UTC on the last Sunday of month m of year y, on the device clock.
LastSunday0100(y, m) ==
    mktime(<<y, m, CHOOSE d \in 25..31 : (DaysFromCivil(y, m, d) + 5) % 7 = 6, 1, 0, 0, 0, 0>>)

\* The UTC instant t lies in UK summer time.
InSummerTime(t) ==
    /\ LastSunday0100(localtime(t)[1], 3) <= t
    /\ t < LastSunday0100(localtime(t)[1], 10)

\* C23: for every UTC instant get_local_time returns UTC plus one hour iff
\* the instant lies from 01:00 UTC on the last Sunday of March (inclusive)
\* to 01:00 UTC on the last Sunday of October (exclusive), and UTC unchanged
\* otherwise; date and weekday of the result are those of the adjusted time.
C23_LocalTimeIsUkTime ==
    pc = "time_done" =>
        local_time = localtime(IF InSummerTime(rtc) THEN rtc + 3600 ELSE rtc)

\* get_local_time was called in the last hour of a UTC day in summer time
\* and returned a time of the next weekday.
C23_Witness ==
    /\ pc = "time_done"
    /\ InSummerTime(rtc)
    /\ localtime(rtc)[4] = 23
    /\ local_time[4] = 0
    /\ local_time[7] = (localtime(rtc)[7] + 1) % 7

-----------------------------------------------------------------------------
(* find_next_bell (main.py:281-299): what it changes and how far it looks,
   under SpecBell *)

NothingButNextBellStep ==
    pc \in {"bell", "bell_done"} =>
        /\ schedule' = schedule
        /\ files' = files
        /\ schedule_manifest' = schedule_manifest
        /\ active_schedule_name' = active_schedule_name
        /\ holiday_mode' = holiday_mode
        /\ relay_status' = relay_status
        /\ pins' = pins

\* C24: a call of find_next_bell changes nothing but NextBellEvent: the
\* schedule in memory, every event of every weekday field for field, is the
\* same before and after the call, and so are the files and the other
\* globals.
C24_FindNextBellChangesNothingElse == [][NothingButNextBellStep]_vars

\* The schedule sched has events on the weekday of now only, and each of
\* them is at or before the minute of now.
OnlyTodayAndPast(sched, now) ==
    /\ DOMAIN sched = {DayStr(now[7])}
    /\ sched[DayStr(now[7])] # <<>>
    /\ \A i \in 1..Len(sched[DayStr(now[7])]) :
          EventMins(sched[DayStr(now[7])][i]) <= now[4] * 60 + now[5]

\* The earliest event of today's list (the first of sorted()), with the
\* name of today.
EarliestToday(sched, now) ==
    DictSet(sched[DayStr(now[7])][SortedPositions(sched[DayStr(now[7])],
                                                  Len(sched[DayStr(now[7])]))[1]],
            "day_name", DAYS_OF_WEEK[now[7] + 1])

\* C27: when the only events of the schedule are on today's weekday and all
\* of them are at or before the current minute, find_next_bell stores the
\* earliest of them, which occurs again within the next seven days, and not
\* the empty event.
C27_NextWeekSameDayFound ==
    pc = "bell_done" /\ OnlyTodayAndPast(schedule, LocalTimeAt(rtc)) =>
        next_bell_event = EarliestToday(schedule, LocalTimeAt(rtc))

-----------------------------------------------------------------------------
(* The success path of fetch_manifest_and_schedule (main.py:393-400) under
   SpecFetch *)

\* The manifest was accepted and the schedule URL answered a document that
\* is not empty.
BothFetched(log) ==
    /\ ManifestAccepted(log)
    /\ Len(log) = 2
    /\ ~Falsy(log[2].got)

\* C28: when both the manifest and the schedule document were fetched, then
\* on return the schedule in memory is the document that was fetched, the
\* cache file holds the same document as the schedule in memory,
\* next_bell_event is what find_next_bell computes from it, and the call
\* returns True.
C28_SuccessfulFetchInstalls ==
    pc = "call" /\ BothFetched(httpLog) =>
        /\ schedule = httpLog[2].got
        /\ SCHEDULE_CACHE_FILE \in DOMAIN files
        /\ files[SCHEDULE_CACHE_FILE] = schedule
        /\ find_next_bell(Globals).next_bell_event = next_bell_event
        /\ ret = "True"

-----------------------------------------------------------------------------
(* /logout and is_authenticated (main.py:532, 555-558) under SpecAuth *)

\* No cookie a client can send now (none, the cookie of any login so far,
\* "session=None") gets the status page: each is redirected to /login.
NoCookieAuthNow ==
    \A c \in AuthCookies(Globals) :
        handle_web_request(Globals, WithCookie(c), ServerUp, NtpOk).response = "303:/login"

LoggedOutStep ==
    /\ pc = "accept" /\ request'.path = "/logout" => NoCookieAuthNow'
    /\ NoCookieAuthNow /\ ~(pc = "accept" /\ response' = "303:/ set-cookie") => NoCookieAuthNow'

\* C26: after a request for /logout no cookie authenticates a request to a
\* protected route, neither the cookie issued before the logout nor the text
\* "session=None", and this stays so in every step that is not a successful
\* login.
C26_NoCookieAfterLogout == [][LoggedOutStep]_vars

\* After a login and a logout, a request for the status page that carried
\* the cookie of that login was redirected to /login.
C26_Witness ==
    /\ pc = "touch"
    /\ issued # <<>>
    /\ current_session_id = None
    /\ request.path = "/"
    /\ "cookie" \in DOMAIN request.headers
    /\ request.headers["cookie"] = SessionCookie(issued[Len(issued)])
    /\ "x-api-key" \notin DOMAIN request.headers
    /\ response = "303:/login"

-----------------------------------------------------------------------------
(* Every clock minute is evaluated (main.py:811-833) under Spec *)

EveryMinuteStep ==
    pc = "edge" =>
        /\ \E i \in 1..Len(evalLog') : evalLog'[i] = ClockMinute(get_local_time(Globals))
        /\ \A i \in 1..(Len(evalLog') - 1) : evalLog'[i + 1] = evalLog'[i] + 1

\* C21: the minute-edge evaluation fires exactly once for every clock minute
\* that passes while the loop runs: whenever a pass of the loop reaches the
\* minute check, the minute the local clock shows has been evaluated when the
\* check is over, and the minutes evaluated so far follow one another
\* without a gap and without a repeat.
C21_EveryMinuteEvaluated == [][EveryMinuteStep]_vars

-----------------------------------------------------------------------------
(* activate_relay and relay_status (main.py:42, 406-414) under SpecWdt *)

\* The relay ids whose status reads ON in the status record st.
ReadsOn(st) == {r \in DOMAIN st : st[r] = "ON"}

RelayStatusStep ==
    /\ \A k \in 1..Len(pinLog') :
          pinLog'[k].level = 1 => ReadsOn(pinLog'[k].status) = {Str(pinLog'[k].pin)}
    /\ pinLog' # <<>> =>
          /\ pins'[1] = 0 /\ pins'[2] = 0
          /\ ReadsOn(relay_status') = {}
          /\ DOMAIN relay_status' = {Str(1), Str(2)}

\* C29: for every relay id a schedule event or a web test passes to
\* activate_relay, the channel that is switched on is the one with that id:
\* at the moment a relay pin is switched on the status record reads ON for
\* that channel and for no other, and when the step that rang is over both
\* pins are off, every status reads OFF and the status record has the
\* entries of the two channels only.
C29_RelayIdSwitchesItsChannel == [][RelayStatusStep]_vars

-----------------------------------------------------------------------------
(* The release branch of handle_touch (main.py:741-753) under SpecTouch *)

\* The settime() attempts of one call of sync_time: at most three, none
\* after one that succeeded, and three when none succeeded.
OneSync(log) ==
    /\ Len(log) \in 1..3
    /\ \A i \in 1..(Len(log) - 1) : ~log[i].ok
    /\ Len(log) < 3 => log[Len(log)].ok

\* One fetch that follows the sync: the manifest is requested once, and no
\* request is made before the last settime() attempt.
OneFetchAfter(sync, log) ==
    /\ Cardinality({i \in 1..Len(log) : log[i].url = SCHEDULE_MANIFEST_URL}) = 1
    /\ log[1].url = SCHEDULE_MANIFEST_URL
    /\ \A i \in 1..Len(sync) : sync[i].at <= log[1].at
    /\ \A i \in 1..Len(sync) : ~sync[i].ok => sync[i].at + 3000 <= log[1].at

ReleaseStep ==
    /\ pc = "touch" /\ touch_pos' = None /\ held_button = "sync" =>
          /\ OneSync(ntpLog')
          /\ OneFetchAfter(ntpLog', httpLog')
    /\ pc = "touch" /\ touch_pos' = None /\ pc' = "house" =>
          /\ held_button' = "None"
          /\ ~touch_lock'
          /\ ~long_press_triggered'
          /\ touch_start_time' = 0

\* C30: the tick in which a touch armed on the Sync button is released makes
\* one time sync and then one schedule fetch, whether or not the sync
\* succeeded, and after every release tick that returns to the loop the touch
\* state is idle: no button armed, the latch and the long-press flag clear,
\* the press start 0.
C30_SyncReleaseSyncsThenFetches == [][ReleaseStep]_vars

\* The Sync button was released while the time server was out of reach:
\* three attempts failed, the manifest and the schedule were requested, and
\* the touch state is idle.
C30_Witness ==
    /\ pc = "house" /\ touch_pos = None
    /\ Len(ntpLog) = 3 /\ \A i \in 1..3 : ~ntpLog[i].ok
    /\ Len(httpLog) = 2 /\ httpLog[1].url = SCHEDULE_MANIFEST_URL
    /\ ret = "True"
    /\ held_button = "None" /\ ~touch_lock /\ ~long_press_triggered /\ touch_start_time = 0

-----------------------------------------------------------------------------
(* The retry loops and the end of a tick (main.py:301-348, 785-834) under
   SpecRetry *)

BoundedRetryStep ==
    /\ Len(ntpLog') <= 3
    /\ Len(ntpLog') = 3 /\ ~ntpLog'[3].ok => ret' = "False" \/ httpLog' # <<>>
    /\ pc = "house" =>
          /\ ticks_ms' - ticks_ms <= 15000
          /\ ticks_ms' - ticks_ms = 15000 => wifi_connection_failed'
    /\ pc' \in {"accept", "touch", "house", "edge", "sleep", "setup"}

\* C22: the retry loops are bounded: a step of the loop makes at most three
\* settime() attempts and gives up after the third (the sync returns False,
\* or the caller goes on to the fetch), the WiFi wait of a pass polls for at
\* most 15 seconds and then reports the connection failed; and every step of
\* a tick ends, so that the loop goes on to its next step and back to the
\* feed at the top of the tick, unless setup mode was entered.
C22_RetriesBoundedTickReturns == [][BoundedRetryStep]_vars

-----------------------------------------------------------------------------
(* The wake-only touch of handle_touch (main.py:196-201, 710-718) under
   SpecWake *)

\* A touch is latched and no button is armed.
Consumed == touch_lock /\ held_button = "None"

\* The step did nothing a button does.
NoButtonActed ==
    /\ holiday_mode' = holiday_mode
    /\ ntpLog' = <<>> /\ httpLog' = <<>>
    /\ ~setup_mode' /\ pc' # "setup"

WakeOnlyStep ==
    /\ pc = "touch" /\ ~display_on /\ ~touch_lock /\ touch_pos' # None =>
          display_on' /\ Consumed' /\ NoButtonActed
    /\ Consumed /\ ~(pc = "touch" /\ touch_pos' = None) => Consumed'
    /\ Consumed /\ pc \in {"touch", "sleep"} => NoButtonActed

\* C25: a touch that begins while the display is off switches the display on
\* and is consumed: the sample latches the touch without arming a button,
\* and from then until the tick that samples no touch, that tick included,
\* no button is armed, HolidayMode is not toggled, and neither a sync, a
\* fetch nor setup mode is started, whichever button the touch is on and
\* however long it is held.
C25_WakeTouchIsConsumed == [][WakeOnlyStep]_vars

\* While the WiFi connection had failed, a tick that followed a tick without
\* a touch has sampled a touch on the Setup button: the display is on, the
\* touch is latched and no button is armed.  (With the display on that
\* sample would have armed the Setup button.)
C25_Witness ==
    /\ pc = "house"
    /\ touch_before = None /\ touch_pos = OnSetup
    /\ wifi_connection_failed
    /\ display_on /\ last_activity_time = rtc
    /\ Consumed
    /\ ~setup_mode


-----------------------------------------------------------------------------
(* The Setup button of handle_touch (main.py:724-725, 741-743) under SpecTouch *)

\* A step arms the Setup button only as the first sample of a touch, inside
\* SETUP_BUTTON_RECT, with wifi_connection_failed set; a step enters
\* run_setup_mode only as the release of a touch that armed it; and with the
\* flag clear after the step, Setup is neither armed nor entered.
SetupGateStep ==
    /\ held_button' = "setup" /\ held_button # "setup" =>
          /\ pc = "touch"
          /\ wifi_connection_failed
          /\ touch_pos = None /\ touch_pos' # None
          /\ InRect(touch_pos', SETUP_BUTTON_RECT)
    /\ setup_mode' /\ ~setup_mode =>
          /\ pc = "touch"
          /\ wifi_connection_failed
          /\ held_button = "setup"
          /\ touch_pos # None /\ touch_pos' = None
    /\ ~wifi_connection_failed' => held_button' # "setup" /\ ~setup_mode'

\* C31: provisioning mode is entered only on the release of a touch whose
\* first sample fell inside the Setup region while wifi_connection_failed was
\* set; while the flag is clear no touch arms Setup or enters provisioning
\* mode.
C31_SetupOnlyAfterWifiFailure == [][SetupGateStep]_vars

\* A touch on the Setup button of a device without WiFi has been released and
\* the device is in provisioning mode.
C31_Witness ==
    /\ pc = "setup" /\ setup_mode
    /\ wifi_connection_failed
    /\ touch_before = OnSetup /\ touch_pos = None

-----------------------------------------------------------------------------
(* SpecOutage: the main loop of a device that has a schedule, with the WiFi
   network failing and the device being reset *)

\* What the flash holds after a run that fetched the usual schedule, with
\* HolidayMode off.
FilesCached ==
    DictSet(DictSet(DictSet(<<>>, HOLIDAY_STATUS_FILE, "0"),
                    SCHEDULE_CACHE_FILE, ScheduleNormal),
            ACTIVE_SCHEDULE_FILE, "Normal Day")

\* The watchdog (line 756) resets the device once the program has stopped
\* feeding it: the loop was ended by an exception.  The flash is kept, the
\* clock runs on until the timeout has passed, the globals get their
\* power-on values and the boot sequence runs.
WatchdogReset(Wlans, Srvs, Ntps) ==
    LET unfed == ticks_ms - wdt_fed
        wait == IF unfed < WDT_TIMEOUT THEN WDT_TIMEOUT - unfed ELSE 0
    IN  /\ pc = "crashed"
        /\ \E wlan \in Wlans, srv \in Srvs, ntp \in Ntps :
              Leave([boot(PowerOn(files, Elapse(Globals, wait).rtc), wlan, srv, ntp)
                        EXCEPT !.passes = passes],
                    "accept")

\* The device boots at 08:00:00 on Monday 2026-11-02 from the saved files,
\* with the WiFi network in reach or out of reach.
OutageStart == WinterMonday + 8 * 3600

\* The resets between two passes of the loop fall into the first
\* MaxResetSeconds seconds of a run.
MaxResetSeconds == 20

InitOutage ==
    /\ \E wlan \in {WlanUp, WlanDown} :
          Start(boot(PowerOn(FilesCached, OutageStart), wlan, ServerUp, NtpOk))
    /\ pc = "accept"

NextOutage ==
    \/ AcceptNone
    \/ AcceptRequest({ApiRequest("/force-update")}, {ServerUp}, {NtpAhead})
    \/ TouchStep({None, OnSync}, {ServerUp, ServerArray}, {NtpOk})
    \/ HouseStep({WlanUp, WlanDown})
    \/ EdgeStep({ServerUp}, {NtpOk})
    \/ SleepStep
    \/ (rtc < OutageStart + MaxResetSeconds
           /\ Reboot({WlanUp, WlanDown}, {ServerUp}, {NtpOk}))
    \/ WatchdogReset({WlanUp, WlanDown}, {ServerUp}, {NtpOk})

SpecOutage == InitOutage /\ [][NextOutage]_vars

-----------------------------------------------------------------------------
(* The trigger evaluation and the WiFi flag (main.py:799-834) under SpecOutage *)

EdgeWhateverWifiStep ==
    LET now == get_local_time(Globals)
        due == DueNow(schedule', now)
    IN  pc = "edge" /\ now[5] # last_check_minute =>
            /\ Len(evalLog') = Len(evalLog) + 1
            /\ evalLog'[Len(evalLog')] = ClockMinute(now)
            /\ last_check_minute' = now[5]
            /\ ~holiday_mode /\ due # <<>> =>
                  ActuatedInOrder(schedule'[DayStr(now[7])], due, pinLog')

\* C32: in every tick in which the minute of the clock differs from
\* last_check_minute the trigger evaluation runs, whether
\* wifi_connection_failed is set or not: the minute is recorded as evaluated
\* and, with HolidayMode off, the events of the schedule that are due in it
\* and name a relay are actuated.
C32_EvaluatedWhateverWifi == [][EdgeWhateverWifiStep]_vars

\* A step that is a reset of the device: the boot sequence has run and the
\* loop is about to begin.
ResetNow == pc # "sleep" /\ pc' = "accept"

FlagStaysStep ==
    /\ ~wifi_connection_failed /\ wifi_connection_failed' => ResetNow \/ pc = "house"
    /\ wifi_connection_failed /\ ~ResetNow =>
          /\ wifi_connection_failed'
          /\ request' = NoRequest /\ response' = "none"
          /\ pc = "house" =>
                /\ last_wifi_check' = last_wifi_check
                /\ ticks_ms' = ticks_ms
                /\ last_status_line' = last_status_line

\* C35: wifi_connection_failed is set by the boot sequence or by the WiFi
\* check of the loop only, and once it is set every step of the loop short
\* of a reset of the device leaves it set, handles no web request and makes
\* no attempt to connect: the WiFi check changes nothing and takes no time.
C35_FailureFlagStays == [][FlagStaysStep]_vars

\* The web server was started at boot, the WiFi check of the loop has failed
\* since, and a pass of the loop has gone by its accept without a request.
C35_Witness ==
    /\ pc = "touch"
    /\ wifi_connection_failed /\ sock
    /\ request = NoRequest

-----------------------------------------------------------------------------
(* The first minute check after a reset (main.py:783, 811-830) under SpecOutage *)

FirstCheckStep ==
    LET now == get_local_time(Globals)
        due == DueNow(schedule', now)
    IN  pc = "edge" /\ last_check_minute = -1 =>
            /\ evalLog' = <<ClockMinute(now)>>
            /\ ~holiday_mode /\ due # <<>> =>
                  /\ Len(pinLog') = 2 * Len(due)
                  /\ \A k \in 1..Len(due) : pinLog'[2 * k - 1].level = 1

-----------------------------------------------------------------------------
(* The schedule in memory and the active schedule name (main.py:385-404,
   582-611) under SpecSched *)

\* A schedule document as it was downloaded: without the day_name that
\* find_next_bell writes into the event it returns.
AsDownloaded(sched) ==
    [d \in DOMAIN sched |->
        [i \in 1..Len(sched[d]) |->
            [k \in DOMAIN sched[d][i] \ {"day_name"} |-> sched[d][i][k]]]]

\* The document the manifest in memory designates for the active schedule
\* name: the one its URL answers when the servers are up.
DesignatedSchedule ==
    https_get_json(ServerUp,
                   schedule_manifest["base_url"]
                       \o FileOf(schedule_manifest["schedules"], active_schedule_name))

\* C33: once a manifest has been fetched, the schedule in memory that the
\* trigger evaluation reads is the schedule document of the active schedule
\* name in every state: after a set-schedule action or a reset of the name
\* by the fetch, whether the download that follows succeeds or fails, it is
\* the document the manifest designates for the active name.
C33_ScheduleIsOfActiveName ==
    schedule_manifest # <<>> /\ HasName(schedule_manifest["schedules"], active_schedule_name) =>
        AsDownloaded(schedule) = DesignatedSchedule

-----------------------------------------------------------------------------
(* The events one evaluation actuates (main.py:822-830, config.py:40) under Spec *)

\* The holds a pin log shows from its k-th write on: for every switch-on the
\* milliseconds until the write that follows it.
RECURSIVE HoldsOf(_, _)
HoldsOf(log, k) ==
    IF k + 1 > Len(log) THEN <<>>
    ELSE <<log[k + 1].at - log[k].at>> \o HoldsOf(log, k + 2)

\* The holds the events of a day's list call for at the time hhmm, from the
\* i-th event on: one for every event whose time is hhmm and that has a
\* relay id, of its belllength if it has one and of RELAY_ON_DURATION if not.
RECURSIVE HoldsCalledFor(_, _, _)
HoldsCalledFor(events, i, hhmm) ==
    IF i > Len(events) THEN <<>>
    ELSE LET e == events[i]
             seconds == IF "belllength" \in DOMAIN e THEN e.belllength ELSE RELAY_ON_DURATION
         IN  (IF "time" \in DOMAIN e /\ e.time = hhmm /\ "relay" \in DOMAIN e
              THEN <<seconds * 1000>>
              ELSE <<>>) \o HoldsCalledFor(events, i + 1, hhmm)

EventActuatedStep ==
    Evaluated /\ ~holiday_mode =>
        LET now == get_local_time(Globals)
            today == DictGet(schedule', DayStr(now[7]), <<>>)
        IN  /\ Len(pinLog') % 2 = 0
            /\ \A k \in 1..Len(pinLog') : pinLog'[k].level = k % 2
            /\ \A k \in 1..(Len(pinLog') \div 2) : pinLog'[2 * k].pin = pinLog'[2 * k - 1].pin
            /\ HoldsOf(pinLog', 1) = HoldsCalledFor(today, 1, FmtHHMM(now[4], now[5]))

\* C34: in a trigger evaluation with HolidayMode off, an event of today's
\* list is actuated if and only if its time is the current HH:MM and it has
\* a relay id; the relay is held for the event's belllength when it has one
\* and for RELAY_ON_DURATION otherwise; events without a relay id or with
\* another time actuate nothing.
C34_EventActuatedIffDue == [][EventActuatedStep]_vars

\* The evaluation of 08:01 on a Monday has just run with HolidayMode off:
\* of the two events of 08:01 the one without a relay id was passed over and
\* the one without a belllength held relay 1 for RELAY_ON_DURATION; the bell
\* of 08:00 was not repeated.
C34_Witness ==
    /\ pc = "sleep"
    /\ ~holiday_mode
    /\ evalLog # <<>>
    /\ evalLog[Len(evalLog)] = ClockMinute(LocalTimeAt(WinterMonday + 8 * 3600 + 60))
    /\ \E i \in 1..Len(schedule["0"]) :
          schedule["0"][i].time = FmtHHMM(8, 1) /\ "relay" \notin DOMAIN schedule["0"][i]
    /\ HoldsOf(pinLog, 1) = <<RELAY_ON_DURATION * 1000>>
    /\ pinLog[1].pin = 1

-----------------------------------------------------------------------------
(* SpecQuiet: the main loop of a device that is left alone after its first
   minute *)

\* The device boots at 08:00:00 on Monday 2026-11-02; touches and requests
\* come in the first minute, and the run is followed for MaxQuietMinutes
\* minutes.
QuietStart == WinterMonday + 8 * 3600
QuietFrom == QuietStart + 60
MaxQuietMinutes == 7

\* Milliseconds from now to the moment the clock shows the second t > rtc.
ToSecond(t) == (t - rtc - 1) * 1000 + ToNextSecond(ticks_ms)

\* The sleep of line 834 followed by a run of idle passes of the loop, until
\* the first moment at which a pass has something to do: the clock shows the
\* next minute, the display timeout has passed (line 205) or the WiFi check
\* is due (line 801).  The passes accept no connection and sample no touch
\* while no button is held; each of them feeds the watchdog.
QuietStep ==
    LET minute == ToNextMinute(rtc, ticks_ms)
        timeout == IF display_on /\ last_activity_time + SCREEN_OFF_TIMEOUT >= rtc
                   THEN ToSecond(last_activity_time + SCREEN_OFF_TIMEOUT + 1)
                   ELSE minute
        check == IF ~wifi_connection_failed /\ last_wifi_check + 300 >= rtc
                 THEN ToSecond(last_wifi_check + 301)
                 ELSE minute
        soonest == IF timeout < check THEN timeout ELSE check
        ms == IF soonest < minute THEN soonest ELSE minute
        g == [Elapse(Fresh(Globals), ms) EXCEPT
                 !.wdt_fed = IF ms > 100 THEN ticks_ms + ms - 100 ELSE wdt_fed,
                 !.wdt_gap = IF ms > 100 THEN ticks_ms + 100 - wdt_fed ELSE 0,
                 \* without WiFi every pass repaints the display that is on
                 \* (lines 831-833)
                 !.last_activity_time =
                     IF ms > 100 /\ wifi_connection_failed /\ display_on /\ display
                     THEN Elapse(Globals, ms - 100).rtc ELSE last_activity_time]
    IN  /\ pc = "sleep"
        /\ rtc < QuietStart + MaxQuietMinutes * 60
        /\ ~touch_lock /\ held_button = "None"
        /\ ~display_on \/ rtc - last_activity_time <= SCREEN_OFF_TIMEOUT
        /\ wifi_connection_failed \/ rtc - last_wifi_check <= 300
        /\ Commit(g)
        /\ pc' = "accept"

InitQuiet ==
    /\ \E g \in {PowerOn(FilesNone, QuietStart), PowerOnNoDisplay(FilesNone, QuietStart)},
           wlan \in {WlanUp, WlanDown} :
          Start(boot(g, wlan, ServerUp, NtpOk))
    /\ pc = "accept"

NextQuiet ==
    \/ AcceptNone
    \/ (rtc < QuietFrom /\ AcceptRequest({ApiRequest("/holidayon")}, {ServerUp}, {NtpOk}))
    \/ TouchStep(IF rtc < QuietFrom THEN {None, OnNothing} ELSE {None}, {ServerUp}, {NtpOk})
    \/ HouseStep({WlanUp})
    \/ EdgeStep({ServerUp}, {NtpOk})
    \/ SleepStep
    \/ QuietStep

SpecQuiet == InitQuiet /\ [][NextQuiet]_vars

-----------------------------------------------------------------------------
(* Display power (main.py:196-207, 220-225, 811-815) under SpecQuiet *)

DisplayOffStep ==
    pc = "house" /\ display_on /\ rtc - QuietFrom > SCREEN_OFF_TIMEOUT => ~display_on'

\* C36: when neither a touch sample nor a web request has occurred for more
\* than SCREEN_OFF_TIMEOUT seconds and the display is on, the display-power
\* housekeeping of the tick switches the display off, the minute refresh of
\* the loop notwithstanding.  (In SpecQuiet the last touch sample and the
\* last request fall before QuietFrom.)
C36_QuietDisplayGoesOff == [][DisplayOffStep]_vars

====
